---- MODULE Spec2Model ----
(***************************************************************************)
(* Manual-entry normalisation: monthly / annual energy totals are split     *)
(* into 15-minute interval records (monthly_to_intervals,                   *)
(* annual_to_intervals, _get_billing_period, _split_to_15min_flat,          *)
(* _parse_travel_dates, _is_in_travel_range).                               *)
(*                                                                          *)
(* Representation.                                                          *)
(*  - A naive datetime is the number of seconds since 2000-01-01T00:00:00   *)
(*    (Datetime builds it from its fields the way the datetime constructor  *)
(*    does; a date is its proleptic Gregorian ordinal, as date.toordinal).  *)
(*  - A dict key produced by datetime.isoformat() is represented by the     *)
(*    instant it spells: for naive datetimes with microsecond = 0 the       *)
(*    string 'YYYY-MM-DDTHH:MM:SS' is fixed-width, so string order is       *)
(*    instant order and distinct instants give distinct keys.               *)
(*  - Energy is an exact rational <<num, den>> counted in units of          *)
(*    0.0001 kWh, so that round(x, 4) is rounding to the nearest integer.   *)
(*    Python floats carry a relative error near 1e-16, far below every      *)
(*    tolerance stated about this code.                                     *)
(*  - A falsy 'year' or bill_end_day (None, 0, '') is the integer 0.        *)
(*  - A row whose 'month' (or 'total') is text that int() (float()) rejects *)
(*    carries the field month_text (total_text) in place of month (total).  *)
(*  - A travel entry without a 'start' key is a record without that field;  *)
(*    a 'start' or 'end' that is not a string (None) is the empty tuple.    *)
(*  - log is the list of records handed to the module's logger.             *)
(*  - A home_details dict is the sequence of its <<key, value>> items; a    *)
(*    call that passes none (None) has no home_details field in args.       *)
(*                                                                          *)
(* The two droplet servers (webhook_server.py, efl_pdftotext_server.py)     *)
(* are separate processes; each has its own specification (SpecWebhook,     *)
(* SpecEfl) that handles one request from dispatch to the handler's return. *)
(*  - An HTTP header that the request does not carry is a header record     *)
(*    without that field; the text of an Authorization header is the pair   *)
(*    scheme, credentials it spells ('Bearer tok' is <<"Bearer", "tok">>).  *)
(*  - A JSON member that is absent is a record without that field; a member *)
(*    of the wrong type carries a differently named field (name_int).       *)
(***************************************************************************)
EXTENDS Integers, Sequences, FiniteSets, TLC

VARIABLES
    op,             \* the function being called
    args,           \* its arguments
    pc,             \* "call" before the function has run, "done" after
    all_intervals,  \* the aggregator's bucket dict before the output loop
    result,         \* the value returned: a list of records, or a period
    raised,         \* the exception that escaped the call, "none" if it returned
    log,            \* the records logged during the call, in order
    env,            \* the server process's configuration (module globals read from os.environ)
    responses,      \* the HTTP responses the request handler has written, in order
    smt_calls,      \* the requests sent to Smart Meter Texas, in order
    commands,       \* the subprocesses started, in order
    response_steps, \* the handler's list of the steps that SMT has answered
    tmp_files       \* the temporary files that exist on disk

vars == <<op, args, pc, all_intervals, result, raised, log,
          env, responses, smt_calls, commands, response_steps, tmp_files>>

\* the state of the two HTTP servers; the normalisation functions never touch it
server_vars == <<env, responses, smt_calls, commands, response_steps, tmp_files>>

\* lines 153-154 and 248-249: home_details = {} when None is passed
HomeDetailsArg == IF "home_details" \in DOMAIN args THEN args.home_details ELSE <<>>

(***************************************************************************)
(* Bounds of the model.                                                     *)
(***************************************************************************)
MaxRows == 2        \* longest monthly_rows list built from PairRows
MaxTravel == 1      \* longest unusual_travel_dates list

(***************************************************************************)
(* Calendar arithmetic of the standard library (calendar, datetime).        *)
(***************************************************************************)
IsLeap(y) == (y % 4 = 0 /\ y % 100 # 0) \/ (y % 400 = 0)

\* calendar.monthrange(year, month)[1]
MonthRange(y, m) ==
    IF m = 2 THEN (IF IsLeap(y) THEN 29 ELSE 28)
    ELSE IF m \in {4, 6, 9, 11} THEN 30 ELSE 31

DaysBeforeYear(y) ==
    (y - 1) * 365 + ((y - 1) \div 4) - ((y - 1) \div 100) + ((y - 1) \div 400)

RECURSIVE DaysBeforeMonth(_, _)
DaysBeforeMonth(y, m) ==
    IF m <= 1 THEN 0 ELSE DaysBeforeMonth(y, m - 1) + MonthRange(y, m - 1)

\* date(y, m, d).toordinal()
ToOrdinal(y, m, d) == DaysBeforeYear(y) + DaysBeforeMonth(y, m) + d

EpochOrdinal == ToOrdinal(2000, 1, 1)

\* datetime(y, m, d, hh, mm, ss) accepts the fields only if they name a real day
ValidDate(y, m, d) == m \in 1..12 /\ d >= 1 /\ d <= MonthRange(y, m)

\* datetime(y, m, d, hh, mm, ss)
Datetime(y, m, d, hh, mm, ss) ==
    (ToOrdinal(y, m, d) - EpochOrdinal) * 86400 + hh * 3600 + mm * 60 + ss

\* dt.date(), as an ordinal
DateOf(dt) == (dt \div 86400) + EpochOrdinal

Min(a, b) == IF a <= b THEN a ELSE b

(***************************************************************************)
(* _get_billing_period(year, month, bill_end_day)                           *)
(***************************************************************************)
GetBillingPeriodNoRollover(year, month, bill_end_day) ==
    LET last_day == MonthRange(year, month)
        end_day == Min(bill_end_day, last_day)
        end_date == Datetime(year, month, end_day, 23, 59, 59)
        prev_year == year
        prev_month == IF month = 1 THEN 12 ELSE month - 1
        prev_last_day == MonthRange(prev_year, prev_month)
        bill_start_day == Min(end_day + 1, prev_last_day)
        start_date == Datetime(prev_year, prev_month, bill_start_day, 0, 0, 0)
    IN  <<start_date, end_date>>

GetBillingPeriod(year, month, bill_end_day) ==
    LET last_day == MonthRange(year, month)
        \* line 312 rebinds the parameter: every later use sees the clamped day
        end_day == Min(bill_end_day, last_day)
        end_date == Datetime(year, month, end_day, 23, 59, 59)
        prev_year == IF month = 1 THEN year - 1 ELSE year
        prev_month == IF month = 1 THEN 12 ELSE month - 1
        prev_last_day == MonthRange(prev_year, prev_month)
        bill_start_day == Min(end_day + 1, prev_last_day)
        start_date == Datetime(prev_year, prev_month, bill_start_day, 0, 0, 0)
    IN  <<start_date, end_date>>

(***************************************************************************)
(* Energy values: exact rationals <<num, den>>, den > 0, in lowest terms.   *)
(***************************************************************************)
Abs(x) == IF x < 0 THEN -x ELSE x

RECURSIVE GCD(_, _)
GCD(a, b) == IF b = 0 THEN a ELSE GCD(b, a % b)

\* n / d for integers n and d # 0
Rat(n, d) ==
    LET g == GCD(Abs(n), Abs(d))
        s == IF d < 0 THEN -1 ELSE 1
    IN  <<(s * n) \div g, (s * d) \div g>>

Zero == <<0, 1>>

\* r / n for a rational r and an integer n # 0
RatDivInt(r, n) == Rat(r[1], r[2] * n)

RatAdd(a, b) ==
    IF a[1] = 0 THEN b
    ELSE IF b[1] = 0 THEN a
    ELSE IF a[2] = b[2] THEN Rat(a[1] + b[1], a[2])
    ELSE Rat(a[1] * b[2] + b[1] * a[2], a[2] * b[2])

RatPositive(r) == r[1] > 0

\* round(): to the nearest integer, ties to the even one
RoundHalfEven(r) ==
    LET q == r[1] \div r[2]
        rem == r[1] % r[2]
    IN  IF 2 * rem < r[2] THEN q
        ELSE IF 2 * rem > r[2] THEN q + 1
        ELSE IF q % 2 = 0 THEN q ELSE q + 1

\* cutting the digits after the fourth decimal instead of rounding
Round4Truncate(r) == r[1] \div r[2]

\* round(consumption, 4), in units of 0.0001 kWh
Round4(r) == RoundHalfEven(r)

(***************************************************************************)
(* _parse_travel_dates, _is_in_travel_range                                 *)
(* A date string 'YYYY-MM-DD' is the triple <<year, month, day>>; strptime  *)
(* raises ValueError when the triple names no real day.                     *)
(***************************************************************************)
StrptimeOK(s) == ValidDate(s[1], s[2], s[3])
Strptime(s) == ToOrdinal(s[1], s[2], s[3])

\* strptime raises TypeError when its argument is not a string
IsStr(s) == s # <<>>

LogRecord(level, msg, detail) == [level |-> level, msg |-> msg, detail |-> detail]

\* lines 400-405 for one entry: "ok" when both dates parse, "skip" when KeyError
\* or ValueError is caught, "TypeError" when strptime is handed a non-string
TravelOutcome(travel) ==
    IF "start" \notin DOMAIN travel THEN "skip"
    ELSE IF ~IsStr(travel.start) THEN "TypeError"
    ELSE IF ~StrptimeOK(travel.start) THEN "skip"
    ELSE IF "end" \notin DOMAIN travel THEN "skip"
    ELSE IF ~IsStr(travel.end) THEN "TypeError"
    ELSE IF ~StrptimeOK(travel.end) THEN "skip"
    ELSE "ok"

\* the exception that escapes _parse_travel_dates, "none" if it returns
TravelFault(unusual_travel_dates) ==
    IF \E i \in 1..Len(unusual_travel_dates) :
           TravelOutcome(unusual_travel_dates[i]) = "TypeError"
    THEN "TypeError" ELSE "none"

\* the warnings of line 405, up to the entry that raises
RECURSIVE TravelWarnings(_)
TravelWarnings(unusual_travel_dates) ==
    IF unusual_travel_dates = <<>> THEN <<>>
    ELSE LET travel == Head(unusual_travel_dates)
             outcome == TravelOutcome(travel)
         IN  IF outcome = "TypeError" THEN <<>>
             ELSE (IF outcome = "skip"
                   THEN <<LogRecord("warning", "Invalid travel date range", travel)>>
                   ELSE <<>>)
                  \o TravelWarnings(Tail(unusual_travel_dates))

RECURSIVE ParseTravelDates(_)
ParseTravelDates(unusual_travel_dates) ==
    IF unusual_travel_dates = <<>> THEN <<>>
    ELSE LET travel == Head(unusual_travel_dates)
             rest == ParseTravelDates(Tail(unusual_travel_dates))
         IN  IF TravelOutcome(travel) = "ok"
             THEN <<(<<Strptime(travel.start), Strptime(travel.end)>>)>> \o rest
             ELSE rest      \* KeyError, ValueError: logged, the range is left out

\* the last day of a range left out
IsInTravelRangeExclusiveEnd(date, travel_ranges) ==
    \E i \in 1..Len(travel_ranges) :
        travel_ranges[i][1] <= date /\ date < travel_ranges[i][2]

IsInTravelRange(date, travel_ranges) ==
    \E i \in 1..Len(travel_ranges) :
        travel_ranges[i][1] <= date /\ date <= travel_ranges[i][2]

(***************************************************************************)
(* _split_to_15min_flat                                                     *)
(***************************************************************************)
\* the timestamps the while loop of lines 364-371 visits
CandidatesExclusiveEnd(current, end_dt) ==
    IF current >= end_dt THEN {}
    ELSE {current + 900 * i : i \in 0..((end_dt - current - 1) \div 900)}

Candidates(current, end_dt) ==
    IF current > end_dt THEN {}
    ELSE {current + 900 * i : i \in 0..((end_dt - current) \div 900)}

\* lines 379-385 without the redistribution
RenormalizeNever(intervals, total_kwh, num_intervals) == intervals

\* redistributing whenever a bucket is left, also when none was left out
RenormalizeAlways(intervals, total_kwh, num_intervals) ==
    LET remaining_intervals == Cardinality(DOMAIN intervals)
    IN  IF remaining_intervals > 0
        THEN [ts_key \in DOMAIN intervals |-> RatDivInt(total_kwh, remaining_intervals)]
        ELSE intervals

\* lines 379-385: redistribute when buckets were left out
Renormalize(intervals, total_kwh, num_intervals) ==
    LET remaining_intervals == Cardinality(DOMAIN intervals)
    IN  IF remaining_intervals < num_intervals /\ remaining_intervals > 0
        THEN LET adjusted_kwh == RatDivInt(total_kwh, remaining_intervals)
             IN  [ts_key \in DOMAIN intervals |-> adjusted_kwh]
        ELSE intervals

\* a distribution scaled by the size of the home profile
SplitShapedByProfile(start_dt, end_dt, total_kwh, travel_ranges, home_details) ==
    LET total_seconds == end_dt - start_dt
        num_intervals == RoundHalfEven(<<total_seconds, 900>>)
    IN  IF num_intervals <= 0 THEN [k \in {} |-> Zero]
        ELSE
        LET shaped_kwh == <<total_kwh[1] * (Len(home_details) + 1), total_kwh[2]>>
            no_seconds == start_dt - (start_dt % 60)
            minute == (((no_seconds % 3600) \div 60) \div 15) * 15
            current == no_seconds - (no_seconds % 3600) + minute * 60
            kept == {ts \in Candidates(current, end_dt) :
                        ~IsInTravelRange(DateOf(ts), travel_ranges)}
        IN  [ts_key \in kept |-> RatDivInt(shaped_kwh, num_intervals)]

\* total_kwh is a rational; the result maps each kept timestamp to its energy
SplitTo15MinFlat(start_dt, end_dt, total_kwh, travel_ranges, home_details) ==
    LET total_seconds == end_dt - start_dt
        \* int(round((total_seconds / 60) / 15))
        num_intervals == RoundHalfEven(<<total_seconds, 900>>)
    IN  IF num_intervals <= 0 THEN [k \in {} |-> Zero]
        ELSE
        LET per_interval_kwh == RatDivInt(total_kwh, num_intervals)
            \* replace(second=0, microsecond=0), then minute floored to 0/15/30/45
            no_seconds == start_dt - (start_dt % 60)
            minute == (((no_seconds % 3600) \div 60) \div 15) * 15
            current == no_seconds - (no_seconds % 3600) + minute * 60
            kept == {ts \in Candidates(current, end_dt) :
                        ~IsInTravelRange(DateOf(ts), travel_ranges)}
            intervals == [ts_key \in kept |-> per_interval_kwh]
        IN  Renormalize(intervals, total_kwh, num_intervals)

(***************************************************************************)
(* The merge and output loops shared by both aggregators.                   *)
(***************************************************************************)
\* all_intervals[ts_key] = kwh, losing what was there
MergeOverwrite(acc, new_intervals) ==
    [ts_key \in (DOMAIN acc) \cup (DOMAIN new_intervals) |->
        IF ts_key \in DOMAIN new_intervals THEN new_intervals[ts_key]
        ELSE acc[ts_key]]

\* all_intervals[ts_key] = all_intervals.get(ts_key, 0) + kwh
Merge(acc, new_intervals) ==
    [ts_key \in (DOMAIN acc) \cup (DOMAIN new_intervals) |->
        RatAdd(IF ts_key \in DOMAIN acc THEN acc[ts_key] ELSE Zero,
               IF ts_key \in DOMAIN new_intervals THEN new_intervals[ts_key] ELSE Zero)]

\* the keys in descending order
SortedKeysDescending(S) ==
    IF S = {} THEN <<>>
    ELSE LET lo == CHOOSE x \in S : \A y \in S : x <= y
             negated == {-x : x \in S}
             hi == -(CHOOSE x \in negated : \A y \in negated : x <= y)
             grid == [i \in 1..(((hi - lo) \div 900) + 1) |-> hi - 900 * (i - 1)]
         IN  SelectSeq(grid, LAMBDA k : k \in S)

\* sorted(keys): every key is a whole number of quarter hours, so the ascending
\* list is the quarter-hour grid between the least and the greatest key,
\* restricted to the keys
SortedKeys(S) ==
    IF S = {} THEN <<>>
    ELSE LET lo == CHOOSE x \in S : \A y \in S : x <= y
             negated == {-x : x \in S}
             hi == -(CHOOSE x \in negated : \A y \in negated : x <= y)
             grid == [i \in 1..(((hi - lo) \div 900) + 1) |-> lo + 900 * (i - 1)]
         IN  SelectSeq(grid, LAMBDA k : k \in S)

\* lines 199-210 and 280-291
OutputList(intervals) ==
    LET positive == {ts \in DOMAIN intervals : RatPositive(intervals[ts])}
        keys == SortedKeys(positive)
    IN  [i \in 1..Len(keys) |->
            [timestamp |-> keys[i],
             consumption |-> Round4(intervals[keys[i]]),
             interval_minutes |-> 15,
             unit |-> "kWh"]]

(***************************************************************************)
(* monthly_to_intervals                                                     *)
(* A row is [month, total, year]: month as int(row['month']), total in      *)
(* units of 0.0001 kWh, year 0 when the row carries none.                   *)
(***************************************************************************)
ValidMonth(row) == 1 <= row.month /\ row.month <= 12

\* lines 163-164: int(row['month']) and float(row['total']) accept the row
NumericRow(row) == "month" \in DOMAIN row /\ "total" \in DOMAIN row

\* the exception that escapes monthly_to_intervals, "none" if it returns:
\* TypeError out of _parse_travel_dates (line 157), ValueError out of the
\* conversions of lines 163-164
MonthlyFault(monthly_rows, unusual_travel_dates) ==
    IF monthly_rows = <<>> THEN "none"
    ELSE IF TravelFault(unusual_travel_dates) # "none"
         THEN TravelFault(unusual_travel_dates)
    ELSE IF \E i \in 1..Len(monthly_rows) : ~NumericRow(monthly_rows[i])
         THEN "ValueError"
    ELSE "none"

\* lines 160-166: monthly_dict[month] = total_kwh, the last row of a month wins
RECURSIVE MonthlyDict(_)
MonthlyDict(monthly_rows) ==
    IF monthly_rows = <<>> THEN [m \in {} |-> 0]
    ELSE LET n == Len(monthly_rows)
             row == monthly_rows[n]
             before == MonthlyDict(SubSeq(monthly_rows, 1, n - 1))
         IN  IF ValidMonth(row)
             THEN [m \in (DOMAIN before) \cup {row.month} |->
                      IF m = row.month THEN row.total ELSE before[m]]
             ELSE before

\* the order in which monthly_dict.items() yields the months: first insertion
RECURSIVE MonthOrder(_)
MonthOrder(monthly_rows) ==
    IF monthly_rows = <<>> THEN <<>>
    ELSE LET n == Len(monthly_rows)
             row == monthly_rows[n]
             before == MonthOrder(SubSeq(monthly_rows, 1, n - 1))
         IN  IF ValidMonth(row) /\ ~(\E i \in 1..Len(before) : before[i] = row.month)
             THEN Append(before, row.month)
             ELSE before

\* no row's year is ever taken
BatchYearNever(monthly_rows) == 0

\* lines 161-168: the year of the first valid row that carries one, else 0 (None)
RECURSIVE BatchYear(_)
BatchYear(monthly_rows) ==
    IF monthly_rows = <<>> THEN 0
    ELSE LET row == Head(monthly_rows)
         IN  IF ValidMonth(row) /\ row.year # 0 THEN row.year
             ELSE BatchYear(Tail(monthly_rows))

\* lines 181-188
MonthPeriod(year, month, bill_end_day) ==
    IF bill_end_day # 0 /\ 1 <= bill_end_day /\ bill_end_day <= 31
    THEN GetBillingPeriod(year, month, bill_end_day)
    ELSE <<Datetime(year, month, 1, 0, 0, 0),
           Datetime(year, month, MonthRange(year, month), 23, 59, 59)>>

\* lines 178-197: the loop over monthly_dict.items()
RECURSIVE MonthlyAllIntervals(_, _, _, _, _, _)
MonthlyAllIntervals(order, monthly_dict, year, bill_end_day, travel_ranges, home_details) ==
    IF order = <<>> THEN [k \in {} |-> Zero]
    ELSE LET n == Len(order)
             month == order[n]
             period == MonthPeriod(year, month, bill_end_day)
             month_intervals ==
                 SplitTo15MinFlat(period[1], period[2], <<monthly_dict[month], 1>>,
                                  travel_ranges, home_details)
         IN  Merge(MonthlyAllIntervals(SubSeq(order, 1, n - 1), monthly_dict, year,
                                       bill_end_day, travel_ranges, home_details),
                   month_intervals)

\* the bucket dict of a call; now_year is datetime.now().year
MonthlyBuckets(monthly_rows, bill_end_day, unusual_travel_dates, home_details, now_year) ==
    LET travel_ranges == ParseTravelDates(unusual_travel_dates)
        monthly_dict == MonthlyDict(monthly_rows)
        first_year == BatchYear(monthly_rows)
        year == IF first_year = 0 THEN now_year ELSE first_year
    IN  IF \/ monthly_rows = <<>>
           \/ MonthlyFault(monthly_rows, unusual_travel_dates) # "none"
           \/ DOMAIN monthly_dict = {}
        THEN [k \in {} |-> Zero]
        ELSE MonthlyAllIntervals(MonthOrder(monthly_rows), monthly_dict, year,
                                 bill_end_day, travel_ranges, home_details)

\* what the call logs: the warnings of _parse_travel_dates, then line 171 or 212
MonthlyLog(monthly_rows, unusual_travel_dates, records) ==
    IF monthly_rows = <<>> THEN <<>>
    ELSE TravelWarnings(unusual_travel_dates) \o
         ( IF MonthlyFault(monthly_rows, unusual_travel_dates) # "none" THEN <<>>
           ELSE IF DOMAIN MonthlyDict(monthly_rows) = {}
           THEN <<LogRecord("warning", "No valid monthly data found", <<>>)>>
           ELSE <<LogRecord("info", "Converted months into 15-min intervals",
                            <<Cardinality(DOMAIN MonthlyDict(monthly_rows)),
                              Len(records)>>)>> )

(***************************************************************************)
(* annual_to_intervals                                                      *)
(***************************************************************************)
\* the window of one day handed to the splitter, lines 268-269
DayWindow(date) ==
    LET midnight == (date - EpochOrdinal) * 86400
    IN  <<midnight, midnight + 23 * 3600 + 45 * 60>>

\* lines 263-278: one splitter call per day from first to last, each merged into
\* all_intervals. The merges are grouped as a balanced tree: the additions are
\* exact, so the grouping does not change the dict the loop ends with.
RECURSIVE AnnualAllIntervals(_, _, _, _, _)
AnnualAllIntervals(first, last, daily_kwh, travel_ranges, home_details) ==
    IF first > last THEN [k \in {} |-> Zero]
    ELSE IF first = last
    THEN LET window == DayWindow(first)
         IN  Merge([k \in {} |-> Zero],
                   SplitTo15MinFlat(window[1], window[2], daily_kwh,
                                    travel_ranges, home_details))
    ELSE LET mid == (first + last) \div 2
         IN  Merge(AnnualAllIntervals(first, mid, daily_kwh, travel_ranges,
                                      home_details),
                   AnnualAllIntervals(mid + 1, last, daily_kwh, travel_ranges,
                                      home_details))

\* "ValueError" when a date does not parse (caught: the call returns []),
\* "ZeroDivisionError" when total_days = 0 (line 260, not caught)
AnnualFault(start_date_str, end_date_str) ==
    IF ~(StrptimeOK(start_date_str) /\ StrptimeOK(end_date_str)) THEN "ValueError"
    ELSE IF Strptime(end_date_str) - Strptime(start_date_str) + 1 = 0
         THEN "ZeroDivisionError"
         ELSE "none"

AnnualBuckets(annual_kwh, start_date_str, end_date_str, unusual_travel_dates, home_details) ==
    IF AnnualFault(start_date_str, end_date_str) # "none" THEN [k \in {} |-> Zero]
    ELSE LET travel_ranges == ParseTravelDates(unusual_travel_dates)
             start_date == Strptime(start_date_str)
             end_date == Strptime(end_date_str)
             total_days == end_date - start_date + 1
             daily_kwh == Rat(annual_kwh, total_days)
         IN  AnnualAllIntervals(start_date, end_date, daily_kwh, travel_ranges,
                                home_details)

\* the exception that escapes annual_to_intervals, "none" if it returns
AnnualRaised(start_date_str, end_date_str, unusual_travel_dates) ==
    IF AnnualFault(start_date_str, end_date_str) = "ValueError" THEN "none"
    ELSE IF TravelFault(unusual_travel_dates) # "none"
         THEN TravelFault(unusual_travel_dates)
    ELSE IF AnnualFault(start_date_str, end_date_str) = "ZeroDivisionError"
         THEN "ZeroDivisionError"
    ELSE "none"

\* what the call logs: line 245, or the warnings of _parse_travel_dates and line 293
AnnualLog(annual_kwh, start_date_str, end_date_str, unusual_travel_dates, records) ==
    IF AnnualFault(start_date_str, end_date_str) = "ValueError"
    THEN <<LogRecord("error", "Invalid date format", <<start_date_str, end_date_str>>)>>
    ELSE TravelWarnings(unusual_travel_dates) \o
         ( IF AnnualRaised(start_date_str, end_date_str, unusual_travel_dates) # "none"
           THEN <<>>
           ELSE <<LogRecord("info", "Converted annual kWh into intervals",
                            <<annual_kwh, Len(records)>>)>> )

(***************************************************************************)
(* Inputs.                                                                  *)
(***************************************************************************)
Years == {2023, 2024, 2025}
CutoffDays == 1..31

\* a row; totals are in units of 0.0001 kWh (12005000 is 1200.5 kWh)
Row(m, y, t) == [month |-> m, total |-> t, year |-> y]

\* rows converted on their own: every month of a leap year, the first months of
\* a common year, a row without a year, a zero total and a total far below one
\* output unit per bucket
SingleRows ==
    {Row(m, 2024, 12005000) : m \in 1..12}
    \cup {Row(m, 2023, 12005000) : m \in 1..3}
    \cup {Row(3, 0, 11000000), Row(5, 2024, 0), Row(6, 2024, 3)}

\* rows combined into longer batches: adjacent months (a batch may also repeat
\* a row) and two months on either side of a new year
PairRows ==
    { Row(2, 2024, 12005000), Row(3, 2024, 11000000),
      Row(12, 2023, 9000000), Row(1, 2024, 12000000) }

\* batches holding a row whose month is out of range
InvalidMonthBatches ==
    { <<Row(13, 2024, 5000000)>>,
      <<Row(13, 2024, 5000000), Row(3, 2024, 11000000)>>,
      <<Row(3, 2024, 11000000), Row(0, 2024, 5000000)>> }

\* batches holding a row whose month or total is text, not a number
TextMonthRow == [month_text |-> "abc", total |-> 5000000, year |-> 2024]
TextTotalRow == [month |-> 2, total_text |-> "abc", year |-> 2024]
MalformedBatches ==
    { <<TextMonthRow, Row(3, 2024, 11000000)>>,
      <<Row(3, 2024, 11000000), TextTotalRow>> }

\* batches holding a negative total, alone and next to a month it overlaps
NegativeBatches ==
    { <<Row(2, 2024, -12005000)>>,
      <<Row(2, 2024, -12005000), Row(3, 2024, 11000000)>> }

\* a month given twice with different totals
RepeatedMonthBatches ==
    { <<Row(2, 2024, 12005000), Row(2, 2024, 3)>>,
      <<Row(2, 2024, 3), Row(2, 2024, 12005000)>> }

RECURSIVE SeqsUpTo(_, _)
SeqsUpTo(S, n) ==
    IF n = 0 THEN {<<>>}
    ELSE LET shorter == SeqsUpTo(S, n - 1)
         IN  shorter \cup {Append(q, x) : q \in shorter, x \in S}

BillEndDays == {0, 15, 31}

Travel(s, e) == [start |-> s, end |-> e]
PartialTravel == Travel(<<2024, 2, 10>>, <<2024, 2, 12>>)
LongTravel == Travel(<<2023, 11, 1>>, <<2024, 4, 30>>)
BadTravel == Travel(<<2024, 2, 30>>, <<2024, 3, 2>>)     \* start is no real day
TravelLists == SeqsUpTo({PartialTravel, LongTravel}, MaxTravel)
ReversedTravel == Travel(<<2024, 2, 12>>, <<2024, 2, 10>>)  \* end before start
NoStartTravel == [end |-> <<2024, 2, 10>>]                  \* no 'start' key
NoneStartTravel == Travel(<<>>, <<2024, 2, 10>>)            \* start is None
BadTravelLists ==
    { <<BadTravel>>, <<BadTravel, PartialTravel>>, <<PartialTravel, BadTravel>>,
      <<ReversedTravel>>, <<NoStartTravel>>, <<NoneStartTravel>>,
      <<BadTravel, NoneStartTravel>> }

\* cutoff days outside 1..31
OutOfRangeBillEndDays == {32, -1}

NowYears == {2025}

\* batches converted at two different times: with and without a year, and
\* with a year only on a row whose month is out of range
ClockYears == {2025, 2026}
ClockBatches ==
    { <<Row(2, 2024, 12005000)>>,
      <<Row(3, 0, 11000000)>>,
      <<Row(3, 0, 11000000), Row(2, 2024, 12005000)>>,
      <<Row(13, 2024, 5000000), Row(3, 0, 11000000)>> }
HomeDetails == {<<>>}

\* home profiles that carry data
HomeProfiles ==
    { <<(<<"square_feet", 2000>>)>>,
      <<(<<"square_feet", 950>>), (<<"insulation", 3>>)>> }

NoIntervals == [k \in {} |-> Zero]

\* calls that pass a home profile, and calls that pass none
MonthlyProfileCalls ==
    LET calls == [monthly_rows : {<<Row(2, 2024, 12005000)>>,
                                  <<Row(2, 2024, 12005000), Row(3, 2024, 11000000)>>},
                  bill_end_day : {31},
                  unusual_travel_dates : {<<>>, <<PartialTravel>>},
                  now_year : NowYears]
    IN  {[monthly_rows |-> c.monthly_rows, bill_end_day |-> c.bill_end_day,
          unusual_travel_dates |-> c.unusual_travel_dates, now_year |-> c.now_year,
          home_details |-> h] : c \in calls, h \in HomeProfiles}
        \cup calls

MonthlyCalls ==
    MonthlyProfileCalls
    \cup
    [monthly_rows : ClockBatches, bill_end_day : {0},
     unusual_travel_dates : {<<>>}, home_details : HomeDetails,
     now_year : ClockYears]
    \cup
    [monthly_rows : {<<r>> : r \in SingleRows}, bill_end_day : BillEndDays,
     unusual_travel_dates : TravelLists, home_details : HomeDetails,
     now_year : NowYears]
    \cup
    [monthly_rows : {<<Row(2, 2024, 12005000)>>}, bill_end_day : {0},
     unusual_travel_dates : BadTravelLists, home_details : HomeDetails,
     now_year : NowYears]
    \cup
    [monthly_rows : {<<Row(2, 2024, 12005000)>>},
     bill_end_day : OutOfRangeBillEndDays,
     unusual_travel_dates : {<<>>}, home_details : HomeDetails,
     now_year : NowYears]
    \cup
    [monthly_rows : SeqsUpTo(PairRows, MaxRows) \cup InvalidMonthBatches
                        \cup RepeatedMonthBatches \cup MalformedBatches
                        \cup NegativeBatches,
     bill_end_day : {0, 31},
     unusual_travel_dates : {<<>>}, home_details : HomeDetails,
     now_year : NowYears]
    \cup
    [monthly_rows : SeqsUpTo(PairRows, MaxRows),
     bill_end_day : {31},
     unusual_travel_dates : {<<PartialTravel>>}, home_details : HomeDetails,
     now_year : NowYears]

InitVars ==
    /\ pc = "call"
    /\ all_intervals = NoIntervals
    /\ result = <<>>
    /\ raised = "none"
    /\ log = <<>>
    /\ env = <<>>
    /\ responses = <<>>
    /\ smt_calls = <<>>
    /\ commands = <<>>
    /\ response_steps = <<>>
    /\ tmp_files = {}

InitPeriod ==
    /\ op = "_get_billing_period"
    /\ args \in [year : Years, month : 1..12, bill_end_day : CutoffDays]
    /\ InitVars

InitMonthly ==
    /\ op = "monthly_to_intervals"
    /\ args \in MonthlyCalls
    /\ InitVars

\* <<start_date_str, end_date_str>>
FullYear == <<(<<2023, 1, 1>>), (<<2023, 12, 31>>)>>
ShortRanges ==
    { <<(<<2024, 2, 27>>), (<<2024, 3, 1>>)>>,       \* four days over a leap day
      <<(<<2023, 12, 30>>), (<<2024, 1, 2>>)>>,      \* four days over a new year
      <<(<<2024, 2, 11>>), (<<2024, 2, 11>>)>>,      \* one day
      <<(<<2024, 2, 9>>), (<<2024, 2, 13>>)>>,       \* five days
      <<(<<2024, 3, 2>>), (<<2024, 3, 1>>)>>,        \* end is the day before start
      <<(<<2024, 3, 5>>), (<<2024, 3, 1>>)>>,        \* end well before start
      <<(<<2023, 2, 29>>), (<<2023, 3, 1>>)>> }      \* start is no real day

\* 10950 kWh, 1 kWh, 0.0003 kWh, 0, -1 kWh
AnnualTotals == {109500000, 10000, 3, 0, -10000}

AnnualProfileCalls ==
    LET calls == [range : {<<(<<2024, 2, 9>>), (<<2024, 2, 13>>)>>},
                  annual_kwh : {10000},
                  unusual_travel_dates : {<<>>, <<PartialTravel>>}]
    IN  {[range |-> c.range, annual_kwh |-> c.annual_kwh,
          unusual_travel_dates |-> c.unusual_travel_dates,
          home_details |-> h] : c \in calls, h \in HomeProfiles}
        \cup calls

AnnualCalls ==
    AnnualProfileCalls
    \cup
    [range : ShortRanges, annual_kwh : AnnualTotals,
     unusual_travel_dates : TravelLists \cup BadTravelLists,
     home_details : HomeDetails]
    \cup
    [range : {FullYear}, annual_kwh : {109500000},
     unusual_travel_dates : {<<>>}, home_details : HomeDetails]

InitAnnual ==
    /\ op = "annual_to_intervals"
    /\ args \in AnnualCalls
    /\ InitVars

\* periods handed to the distributor: calendar months and billing cycles,
\* the day window of the annual path, five days, a start off the quarter-hour
\* grid, periods that round to zero, one and two intervals, and an end before
\* the start
SplitPeriods ==
    { MonthPeriod(2024, 2, 0), MonthPeriod(2024, 2, 31), MonthPeriod(2023, 4, 15),
      MonthPeriod(2024, 1, 31),
      DayWindow(ToOrdinal(2024, 2, 11)),
      <<Datetime(2024, 2, 9, 0, 0, 0), Datetime(2024, 2, 13, 23, 59, 59)>>,
      <<Datetime(2024, 2, 11, 10, 7, 30), Datetime(2024, 2, 11, 12, 0, 0)>>,
      <<Datetime(2024, 2, 11, 0, 0, 0), Datetime(2024, 2, 11, 0, 0, 0)>>,
      <<Datetime(2024, 2, 11, 0, 0, 0), Datetime(2024, 2, 11, 0, 7, 30)>>,
      <<Datetime(2024, 2, 11, 0, 0, 0), Datetime(2024, 2, 11, 0, 7, 31)>>,
      <<Datetime(2024, 2, 11, 0, 0, 0), Datetime(2024, 2, 11, 0, 22, 30)>>,
      <<Datetime(2024, 2, 11, 12, 0, 0), Datetime(2024, 2, 11, 10, 0, 0)>> }

\* parsed travel ranges: none, three days, two overlapping ranges, every day
SplitTravelRanges ==
    { <<>>,
      <<(<<ToOrdinal(2024, 2, 10), ToOrdinal(2024, 2, 12)>>)>>,
      <<(<<ToOrdinal(2024, 2, 10), ToOrdinal(2024, 2, 11)>>),
        (<<ToOrdinal(2024, 2, 11), ToOrdinal(2024, 2, 12)>>)>>,
      <<(<<ToOrdinal(2024, 2, 12), ToOrdinal(2024, 2, 10)>>)>>,
      <<(<<ToOrdinal(2023, 1, 1), ToOrdinal(2024, 12, 31)>>)>> }

SplitCalls ==
    [start_end : SplitPeriods, total_kwh : {12005000, 3, 0},
     travel_ranges : SplitTravelRanges, home_details : HomeDetails \cup HomeProfiles]

InitSplit ==
    /\ op = "_split_to_15min_flat"
    /\ args \in SplitCalls
    /\ InitVars

\* a direct call of the distributor; result is the dict it returns
CallSplitTo15MinFlat ==
    /\ pc = "call"
    /\ op = "_split_to_15min_flat"
    /\ result' = SplitTo15MinFlat(args.start_end[1], args.start_end[2],
                                  <<args.total_kwh, 1>>, args.travel_ranges,
                                  args.home_details)
    /\ pc' = "done"
    /\ UNCHANGED <<op, args, all_intervals, raised, log>>
    /\ UNCHANGED server_vars

\* a direct call of the resolver
CallGetBillingPeriod ==
    /\ pc = "call"
    /\ op = "_get_billing_period"
    /\ result' = GetBillingPeriod(args.year, args.month, args.bill_end_day)
    /\ pc' = "done"
    /\ UNCHANGED <<op, args, all_intervals, raised, log>>
    /\ UNCHANGED server_vars

CallMonthlyToIntervals ==
    /\ pc = "call"
    /\ op = "monthly_to_intervals"
    /\ all_intervals' = MonthlyBuckets(args.monthly_rows, args.bill_end_day,
                                       args.unusual_travel_dates, HomeDetailsArg,
                                       args.now_year)
    /\ result' = OutputList(all_intervals')
    /\ raised' = MonthlyFault(args.monthly_rows, args.unusual_travel_dates)
    /\ log' = MonthlyLog(args.monthly_rows, args.unusual_travel_dates, result')
    /\ pc' = "done"
    /\ UNCHANGED <<op, args>>
    /\ UNCHANGED server_vars

CallAnnualToIntervals ==
    /\ pc = "call"
    /\ op = "annual_to_intervals"
    /\ raised' = AnnualRaised(args.range[1], args.range[2], args.unusual_travel_dates)
    /\ all_intervals' =
           IF raised' # "none" THEN NoIntervals
           ELSE AnnualBuckets(args.annual_kwh, args.range[1], args.range[2],
                              args.unusual_travel_dates, HomeDetailsArg)
    /\ result' = OutputList(all_intervals')
    /\ log' = AnnualLog(args.annual_kwh, args.range[1], args.range[2],
                        args.unusual_travel_dates, result')
    /\ pc' = "done"
    /\ UNCHANGED <<op, args>>
    /\ UNCHANGED server_vars

NextPeriod == CallGetBillingPeriod
SpecPeriod == InitPeriod /\ [][NextPeriod]_vars

NextMonthly == CallMonthlyToIntervals
SpecMonthly == InitMonthly /\ [][NextMonthly]_vars

NextAnnual == CallAnnualToIntervals
SpecAnnual == InitAnnual /\ [][NextAnnual]_vars

NextSplit == CallSplitTo15MinFlat
SpecSplit == InitSplit /\ [][NextSplit]_vars

Next ==
    \/ CallGetBillingPeriod
    \/ CallSplitTo15MinFlat
    \/ CallMonthlyToIntervals
    \/ CallAnnualToIntervals
Spec == (InitPeriod \/ InitSplit \/ InitMonthly \/ InitAnnual) /\ [][Next]_vars

(***************************************************************************)
(* Properties.                                                              *)
(***************************************************************************)
Returned(f) == pc = "done" /\ op = f /\ raised = "none"

\* the sum of the emitted consumption values of records lo..hi
RECURSIVE SumConsumption(_, _, _)
SumConsumption(records, lo, hi) ==
    IF lo > hi THEN 0
    ELSE IF lo = hi THEN records[lo].consumption
    ELSE LET mid == (lo + hi) \div 2
         IN  SumConsumption(records, lo, mid) + SumConsumption(records, mid + 1, hi)

EmittedSum == SumConsumption(result, 1, Len(result))

\* |sum - total| <= 1e-6 * total, for integers
Within1e6(sum, total) == Abs(sum - total) <= total \div 1000000

\* the quarter hours ts with lo floored to a quarter hour <= ts <= hi
QuarterHours(lo, hi) ==
    {t \in {900 * q : q \in (lo \div 900)..(hi \div 900)} : t <= hi}

\* the travel ranges of the call that parse, as pairs of day ordinals
TravelDays(travel) ==
    {<<Strptime(travel[i].start), Strptime(travel[i].end)>> :
        i \in {j \in 1..Len(travel) : TravelOutcome(travel[j]) = "ok"}}

\* the dates among `dates` that lie in a travel range of the call
ExcludedAmong(dates, travel) ==
    LET ranges == TravelDays(travel)
    IN  {date \in dates : \E r \in ranges : r[1] <= date /\ date <= r[2]}

\* the period of a row resolved from the row's own year
OwnYear(row) == IF row.year = 0 THEN args.now_year ELSE row.year
OwnPeriod(row) == MonthPeriod(OwnYear(row), row.month, args.bill_end_day)
OwnCandidates(row) == QuarterHours(OwnPeriod(row)[1], OwnPeriod(row)[2])
OwnExcluded(row) ==
    LET candidates == OwnCandidates(row)
        first == DateOf(OwnPeriod(row)[1])
        last == DateOf(OwnPeriod(row)[2])
        excluded_days == ExcludedAmong(first..last, args.unusual_travel_dates)
    IN  {t \in candidates : DateOf(t) \in excluded_days}

\* a call of monthly_to_intervals on one valid entry with a total >= 0
OneEntry ==
    /\ Returned("monthly_to_intervals")
    /\ Len(args.monthly_rows) = 1
    /\ ValidMonth(args.monthly_rows[1])
    /\ args.monthly_rows[1].total >= 0

\* C1 as stated: for a monthly entry whose period overlaps no travel range the
\* emitted energies sum to the entry's total within 1e-6 relative tolerance.
C1_ConservationWithin1e6 ==
    (OneEntry /\ OwnExcluded(args.monthly_rows[1]) = {})
        => Within1e6(EmittedSum, args.monthly_rows[1].total)

\* C1 amended: for a monthly entry whose period overlaps no travel range every
\* bucket carries total / n before the output loop (n the number of buckets, so
\* the unrounded energies sum to the total), and the emitted energies, each
\* rounded to 4 decimals, sum to the total within 0.00005 kWh per emitted bucket.
C1_ConservationUpToRounding ==
    (OneEntry /\ OwnExcluded(args.monthly_rows[1]) = {})
        => LET total == args.monthly_rows[1].total
               n == Cardinality(DOMAIN all_intervals)
           IN  /\ n = Cardinality(OwnCandidates(args.monthly_rows[1]))
               /\ \A ts \in DOMAIN all_intervals : all_intervals[ts] = Rat(total, n)
               /\ total > 0 => Len(result) = n
               /\ 2 * Abs(EmittedSum - total) <= Len(result)

\* January 2024, 1200.5 kWh: 2976 buckets of 0.4034 kWh, 1200.5184 kWh in all
C1_Witness ==
    /\ OneEntry
    /\ args.monthly_rows[1] = Row(1, 2024, 12005000)
    /\ args.bill_end_day = 0
    /\ args.unusual_travel_dates = <<>>
    /\ Len(result) = 2976
    /\ EmittedSum = 12005184

\* the exact sum of the energies all_intervals holds for quarter hours lo..hi of a day
RECURSIVE DaySum(_, _, _)
DaySum(date, lo, hi) ==
    IF lo = hi
    THEN LET ts == (date - EpochOrdinal) * 86400 + 900 * lo
         IN  IF ts \in DOMAIN all_intervals THEN all_intervals[ts] ELSE Zero
    ELSE LET mid == (lo + hi) \div 2
         IN  RatAdd(DaySum(date, lo, mid), DaySum(date, mid + 1, hi))

\* the emitted sum equals the total within 1e-6, or at least within the 4-decimal
\* rounding of the emitted values (0.00005 kWh per record)
WithinToleranceOrRounding(sum, total) ==
    Within1e6(sum, total) \/ 2 * Abs(sum - total) <= Len(result)

AnnualRan ==
    /\ Returned("annual_to_intervals")
    /\ AnnualFault(args.range[1], args.range[2]) = "none"
    /\ Strptime(args.range[1]) <= Strptime(args.range[2])
    /\ args.annual_kwh > 0

\* C2 as stated: an annual entry with startDate <= endDate, total > 0 and no
\* travel ranges yields buckets that sum to the annual total; each day's
\* 00:00..23:45 buckets sum to exactly dailyAverage = total / totalDays.
C2_AnnualConservation ==
    (AnnualRan /\ args.unusual_travel_dates = <<>>)
        => LET first == Strptime(args.range[1])
               last == Strptime(args.range[2])
           IN  /\ \A date \in first..last :
                     DaySum(date, 0, 95) = Rat(args.annual_kwh, last - first + 1)
               /\ WithinToleranceOrRounding(EmittedSum, args.annual_kwh)

PrevYear(year, month) == IF month = 1 THEN year - 1 ELSE year
PrevMonth(month) == IF month = 1 THEN 12 ELSE month - 1

\* C3 as stated: periodStart is day min(cutoffDay + 1, lastDayOfPrevMonth) of the
\* previous month at 00:00:00, from the caller's cutoffDay.
C3_StartFromOriginalCutoff ==
    Returned("_get_billing_period")
        => LET py == PrevYear(args.year, args.month)
               pm == PrevMonth(args.month)
           IN  result[1] =
                   Datetime(py, pm, Min(args.bill_end_day + 1, MonthRange(py, pm)), 0, 0, 0)

\* C4: periodEnd is day min(cutoffDay, lastDayOfMonth) of the month at 23:59:59,
\* periodStart is a midnight of the previous calendar month (December of year-1
\* for month 1), (2024, 3, 15) resolves to (2024-02-16T00:00:00,
\* 2024-03-15T23:59:59), and periodStart < periodEnd.
C4_PeriodEndAndRollover ==
    Returned("_get_billing_period")
        => LET py == PrevYear(args.year, args.month)
               pm == PrevMonth(args.month)
           IN  /\ result[2] =
                     Datetime(args.year, args.month,
                              Min(args.bill_end_day, MonthRange(args.year, args.month)),
                              23, 59, 59)
               /\ result[1] >= Datetime(py, pm, 1, 0, 0, 0)
               /\ result[1] <= Datetime(py, pm, MonthRange(py, pm), 0, 0, 0)
               /\ result[1] % 86400 = 0
               /\ result[1] < result[2]
               /\ (args.year = 2024 /\ args.month = 3 /\ args.bill_end_day = 15)
                     => result = <<Datetime(2024, 2, 16, 0, 0, 0),
                                   Datetime(2024, 3, 15, 23, 59, 59)>>

\* January 2024 with cutoff day 31 starts on 2023-12-31 and ends on 2024-01-31
C4_Witness ==
    /\ Returned("_get_billing_period")
    /\ args = [year |-> 2024, month |-> 1, bill_end_day |-> 31]
    /\ result = <<Datetime(2023, 12, 31, 0, 0, 0), Datetime(2024, 1, 31, 23, 59, 59)>>

\* C5: for a monthly entry with n candidate buckets of which k (0 < k < n) fall
\* on travel-excluded dates, exactly the n-k other candidates are kept, each
\* carries total / (n-k), so that they sum to the total; the emitted records are
\* these buckets, each rounded to 4 decimals.
C5_PartialExclusionRenormalized ==
    OneEntry =>
        LET row == args.monthly_rows[1]
            n == Cardinality(OwnCandidates(row))
            k == Cardinality(OwnExcluded(row))
        IN  (0 < k /\ k < n) =>
                /\ DOMAIN all_intervals = OwnCandidates(row) \ OwnExcluded(row)
                /\ \A ts \in DOMAIN all_intervals :
                      all_intervals[ts] = Rat(row.total, n - k)
                /\ row.total > 0 =>
                      /\ Len(result) = n - k
                      /\ \A i \in 1..Len(result) :
                            result[i].consumption = Round4(Rat(row.total, n - k))
                /\ 2 * Abs(EmittedSum - row.total) <= Len(result)

\* February 2024, 1200.5 kWh, travel 10-12 February: 26 of 29 days are kept,
\* 2496 buckets of 0.4810 kWh
C5_Witness ==
    /\ OneEntry
    /\ args.monthly_rows[1] = Row(2, 2024, 12005000)
    /\ args.bill_end_day = 0
    /\ args.unusual_travel_dates = <<PartialTravel>>
    /\ Cardinality(OwnExcluded(args.monthly_rows[1])) = 288
    /\ Len(result) = 2496
    /\ result[1].consumption = 4810

\* the days of the annual range
AnnualDays == Strptime(args.range[1])..Strptime(args.range[2])

\* C6 as stated: an annual entry whose range holds a day outside all travel
\* ranges and a day inside one emits energies that sum to the annual total.
C6_AnnualPartialExclusionConserves ==
    ( /\ AnnualRan
      /\ ExcludedAmong(AnnualDays, args.unusual_travel_dates) # {}
      /\ ExcludedAmong(AnnualDays, args.unusual_travel_dates) # AnnualDays )
        => WithinToleranceOrRounding(EmittedSum, args.annual_kwh)

\* what distributing row i of the batch on its own contributes
Contribution(i) ==
    IF i <= Len(args.monthly_rows) /\ ValidMonth(args.monthly_rows[i])
    THEN LET row == args.monthly_rows[i]
         IN  SplitTo15MinFlat(OwnPeriod(row)[1], OwnPeriod(row)[2], <<row.total, 1>>,
                              ParseTravelDates(args.unusual_travel_dates),
                              HomeDetailsArg)
    ELSE NoIntervals

At(intervals, ts) == IF ts \in DOMAIN intervals THEN intervals[ts] ELSE Zero

ValidRows == {i \in 1..Len(args.monthly_rows) : ValidMonth(args.monthly_rows[i])}

\* the valid rows of the batch name pairwise different months of one year
DistinctMonthsOneYear ==
    \A i, j \in ValidRows :
        /\ args.monthly_rows[i].year # 0
        /\ args.monthly_rows[i].year = args.monthly_rows[j].year
        /\ (i # j => args.monthly_rows[i].month # args.monthly_rows[j].month)

\* C7: in a batch of entries for different months of one year, every timestamp
\* (those shared by two entries' periods included) has one merged bucket whose
\* energy is the sum of the entries' independent contributions to it, and one
\* output record carrying that sum rounded to 4 decimals.
C7_AdditiveMerge ==
    ( /\ Returned("monthly_to_intervals")
      /\ Len(args.monthly_rows) \in {2, 3}
      /\ DistinctMonthsOneYear )
        => LET c1 == Contribution(1)
               c2 == Contribution(2)
               c3 == Contribution(3)
               Sum(ts) == RatAdd(RatAdd(At(c1, ts), At(c2, ts)), At(c3, ts))
           IN  /\ DOMAIN all_intervals = (DOMAIN c1) \cup (DOMAIN c2) \cup (DOMAIN c3)
               /\ \A ts \in DOMAIN all_intervals : all_intervals[ts] = Sum(ts)
               /\ \A i \in 1..Len(result) :
                     /\ result[i].consumption = Round4(all_intervals[result[i].timestamp])
                     /\ i < Len(result) => result[i].timestamp < result[i + 1].timestamp
               /\ {result[i].timestamp : i \in 1..Len(result)} =
                     {ts \in DOMAIN all_intervals : RatPositive(all_intervals[ts])}

\* February and March 2024 with cutoff day 31 both cover 2024-02-29: the bucket
\* at 00:00 carries 1200.5/2976 + 1100/3072 kWh, emitted as 0.7615
C7_Witness ==
    /\ Returned("monthly_to_intervals")
    /\ args.monthly_rows = <<Row(2, 2024, 12005000), Row(3, 2024, 11000000)>>
    /\ args.bill_end_day = 31
    /\ args.unusual_travel_dates = <<>>
    /\ Datetime(2024, 2, 29, 0, 0, 0) \in (DOMAIN Contribution(1)) \cap (DOMAIN Contribution(2))
    /\ \E i \in 1..Len(result) :
          /\ result[i].timestamp = Datetime(2024, 2, 29, 0, 0, 0)
          /\ result[i].consumption = 7615

\* the additive union of the independent contributions of rows 1..n
RECURSIVE IndependentUnion(_)
IndependentUnion(n) ==
    IF n = 0 THEN NoIntervals ELSE Merge(IndependentUnion(n - 1), Contribution(n))

\* C8 as stated: the bucket map of a batch is the additive union of the maps
\* obtained by distributing each valid entry independently, also when two
\* entries name the same month (here: all entries carry the same year).
C8_EveryValidEntryContributes ==
    ( /\ Returned("monthly_to_intervals")
      /\ \A i, j \in ValidRows :
            /\ args.monthly_rows[i].year # 0
            /\ args.monthly_rows[i].year = args.monthly_rows[j].year )
        => all_intervals = IndependentUnion(Len(args.monthly_rows))

\* C9 as stated: every entry's period is resolved from the entry's own year, so
\* the buckets of a batch of valid entries for different months (positive
\* totals, no travel) are exactly the quarter hours of the entries' own periods.
C9_PerEntryYear ==
    ( /\ Returned("monthly_to_intervals")
      /\ args.unusual_travel_dates = <<>>
      /\ \A i \in 1..Len(args.monthly_rows) :
            /\ i \in ValidRows
            /\ args.monthly_rows[i].year # 0
            /\ args.monthly_rows[i].total > 0
            /\ \A j \in ValidRows : i # j =>
                  args.monthly_rows[i].month # args.monthly_rows[j].month )
        => {result[i].timestamp : i \in 1..Len(result)} =
              UNION {OwnCandidates(args.monthly_rows[i]) : i \in 1..Len(args.monthly_rows)}

\* the quarter hours 00:00 .. 23:45 of a day
DayQuarterHours(date) == {(date - EpochOrdinal) * 86400 + 900 * slot : slot \in 0..95}

\* C10: with a positive total every day of the range outside the travel ranges
\* contributes exactly its 96 buckets 00:00 .. 23:45 and every excluded day
\* none; a full non-leap year without travel ranges gives 35040 buckets.
C10_AnnualBucketCount ==
    AnnualRan =>
        LET kept_days == AnnualDays \ ExcludedAmong(AnnualDays, args.unusual_travel_dates)
        IN  /\ {result[i].timestamp : i \in 1..Len(result)} =
                  UNION {DayQuarterHours(date) : date \in kept_days}
            /\ Len(result) = 96 * Cardinality(kept_days)
            /\ ( /\ args.unusual_travel_dates = <<>>
                 /\ Cardinality(AnnualDays) = 365
                 /\ args.range[1][2] = 1 /\ args.range[1][3] = 1 )
                    => Len(result) = 35040

\* the year 2023 without travel ranges: 35040 records
C10_Witness ==
    /\ AnnualRan
    /\ args.range = FullYear
    /\ args.unusual_travel_dates = <<>>
    /\ Len(result) = 35040

\* five days of which three are travel days: 2 x 96 records
C10_WitnessExcluded ==
    /\ AnnualRan
    /\ args.range = <<(<<2024, 2, 9>>), (<<2024, 2, 13>>)>>
    /\ args.unusual_travel_dates = <<PartialTravel>>
    /\ Len(result) = 192

\* a call of monthly_to_intervals has finished, by returning or by raising
Finished(f) == pc = "done" /\ op = f

\* the log holds a warning or an error, the only reports the module makes
\* besides the returned list
WarningLogged == \E i \in 1..Len(log) : log[i].level \in {"warning", "error"}

\* a one-entry batch with a positive total whose period lies inside the travel ranges
FullyExcluded ==
    /\ Finished("monthly_to_intervals")
    /\ Len(args.monthly_rows) = 1
    /\ NumericRow(args.monthly_rows[1])
    /\ ValidMonth(args.monthly_rows[1])
    /\ args.monthly_rows[1].total > 0
    /\ TravelFault(args.unusual_travel_dates) = "none"
    /\ OwnExcluded(args.monthly_rows[1]) = OwnCandidates(args.monthly_rows[1])

\* C11 as stated: when travel ranges cover every date of an entry's period the
\* call does not raise, the entry yields no bucket, and the exclusion is
\* reported (here: at least a warning is logged for it).
C11_FullExclusionReported ==
    FullyExcluded
        => /\ raised = "none"
           /\ DOMAIN all_intervals = {}
           /\ result = <<>>
           /\ WarningLogged

\* the entries of the batch that fail validation: month or total not a number,
\* or month outside 1..12
InvalidEntries ==
    {i \in 1..Len(args.monthly_rows) :
        ~NumericRow(args.monthly_rows[i]) \/ ~ValidMonth(args.monthly_rows[i])}

\* the batch without the entries that fail validation
ValidEntriesOnly ==
    SelectSeq(args.monthly_rows, LAMBDA row : NumericRow(row) /\ ValidMonth(row))

Warnings == SelectSeq(log, LAMBDA e : e.level \in {"warning", "error"})

\* C12 as stated: a batch holding an entry that fails validation does not
\* abort; it yields the buckets of its valid entries, and every skipped entry
\* is reported (here: at least one warning per skipped entry).
C12_BatchFailureIsolation ==
    ( /\ Finished("monthly_to_intervals")
      /\ TravelFault(args.unusual_travel_dates) = "none"
      /\ InvalidEntries # {} )
        => /\ raised = "none"
           /\ all_intervals = MonthlyBuckets(ValidEntriesOnly, args.bill_end_day,
                                             args.unusual_travel_dates,
                                             HomeDetailsArg, args.now_year)
           /\ Len(Warnings) >= Cardinality(InvalidEntries)

\* the batch without the entries whose total is negative
NonNegativeOnly == SelectSeq(args.monthly_rows, LAMBDA row : row.total >= 0)

\* the call is told apart from one that returned normally: it raised, or it
\* logged a warning or an error
Rejected == raised # "none" \/ WarningLogged

\* C13 as stated: an entry with a negative total is rejected; the output holds
\* no bucket derived from it (it is the output of the call without that entry)
\* and the rejection is distinguishable from an empty valid result.
C13_InvalidTotalRejected ==
    /\ ( /\ Finished("monthly_to_intervals")
         /\ MonthlyFault(args.monthly_rows, args.unusual_travel_dates) = "none"
         /\ \E i \in 1..Len(args.monthly_rows) :
               ValidMonth(args.monthly_rows[i]) /\ args.monthly_rows[i].total < 0 )
          => /\ result = OutputList(MonthlyBuckets(NonNegativeOnly, args.bill_end_day,
                                                   args.unusual_travel_dates,
                                                   HomeDetailsArg, args.now_year))
             /\ Rejected
    /\ ( /\ Finished("annual_to_intervals")
         /\ AnnualFault(args.range[1], args.range[2]) = "none"
         /\ TravelFault(args.unusual_travel_dates) = "none"
         /\ args.annual_kwh < 0 )
          => /\ result = <<>>
             /\ Rejected

\* C14 as stated: a call whose cutoff day is given and lies outside 1..31 is
\* rejected and produces no bucket (0 stands for a cutoff day that is absent).
C14_CutoffOutOfRangeRejected ==
    ( /\ Finished("monthly_to_intervals")
      /\ args.bill_end_day # 0
      /\ ~(1 <= args.bill_end_day /\ args.bill_end_day <= 31) )
        => /\ result = <<>>
           /\ Rejected

\* the travel entries of the call that parse and end before they start
ReversedRanges ==
    {i \in 1..Len(args.unusual_travel_dates) :
        /\ TravelOutcome(args.unusual_travel_dates[i]) = "ok"
        /\ Strptime(args.unusual_travel_dates[i].end)
              < Strptime(args.unusual_travel_dates[i].start)}

\* the call got as far as using its travel ranges
TravelRangesUsed ==
    /\ \/ Finished("monthly_to_intervals") /\ args.monthly_rows # <<>>
       \/ /\ Finished("annual_to_intervals")
          /\ AnnualFault(args.range[1], args.range[2]) # "ValueError"
    /\ TravelFault(args.unusual_travel_dates) = "none"

\* C15 as stated: a travel range whose end precedes its start is rejected by
\* both aggregators and never enters the exclusion set.
C15_ReversedTravelRejected ==
    (TravelRangesUsed /\ ReversedRanges # {})
        => /\ Rejected
           /\ LET travel_ranges == ParseTravelDates(args.unusual_travel_dates)
              IN  \A i \in 1..Len(travel_ranges) :
                      travel_ranges[i][1] <= travel_ranges[i][2]

\* C16 as stated: monthly_to_intervals and annual_to_intervals never raise,
\* whatever their input.
C16_NoRawFault ==
    (Finished("monthly_to_intervals") \/ Finished("annual_to_intervals"))
        => raised = "none"

\* what the caller of annual_to_intervals holds after the call
ReturnedToCaller == <<result, raised>>

\* what the caller holds after a valid conversion that produced no bucket
\* (one day, total 0)
ZeroBucketSuccess ==
    <<OutputList(AnnualBuckets(0, <<2024, 2, 11>>, <<2024, 2, 11>>, <<>>, <<>>)), "none">>

\* C17 as stated: when startDate or endDate does not parse, annual_to_intervals
\* emits no bucket and what it hands the caller differs from what a successful
\* conversion with zero buckets hands the caller.
C17_AnnualAtomicFailure ==
    ( /\ Finished("annual_to_intervals")
      /\ AnnualFault(args.range[1], args.range[2]) = "ValueError" )
        => /\ result = <<>>
           /\ ReturnedToCaller # ZeroBucketSuccess

\* either aggregator has returned its list
AggregatorReturned == Returned("monthly_to_intervals") \/ Returned("annual_to_intervals")

\* C18: the list returned by monthly_to_intervals and by annual_to_intervals is
\* strictly ascending in timestamp, so no timestamp occurs twice.
C18_SortedUnique ==
    AggregatorReturned
        => \A i \in 1..(Len(result) - 1) : result[i].timestamp < result[i + 1].timestamp

\* February and March 2024 with cutoff day 31 overlap on 2024-02-29: 5952
\* records from 2024-01-30T00:00 to 2024-03-31T23:45, the 96 shared timestamps once
C18_Witness ==
    /\ Returned("monthly_to_intervals")
    /\ args.monthly_rows = <<Row(3, 2024, 11000000), Row(2, 2024, 12005000)>>
    /\ args.bill_end_day = 31
    /\ args.unusual_travel_dates = <<>>
    /\ Len(result) = 5952
    /\ result[1].timestamp = Datetime(2024, 1, 30, 0, 0, 0)
    /\ result[5952].timestamp = Datetime(2024, 3, 31, 23, 45, 0)
    /\ Cardinality(DOMAIN Contribution(1) \cap DOMAIN Contribution(2)) = 96

\* the period of a row as section 4.1 words it: the end is day
\* min(cutoffDay, lastDay) of the month, the start is day
\* min(cutoffDay + 1, lastDayOfPrevMonth) of the previous month, both from the
\* caller's cutoff day and the row's own year; the calendar month without one
StatedPeriod(row) ==
    LET year == OwnYear(row)
        py == PrevYear(year, row.month)
        pm == PrevMonth(row.month)
    IN  IF args.bill_end_day = 0
        THEN <<Datetime(year, row.month, 1, 0, 0, 0),
               Datetime(year, row.month, MonthRange(year, row.month), 23, 59, 59)>>
        ELSE <<Datetime(py, pm, Min(args.bill_end_day + 1, MonthRange(py, pm)), 0, 0, 0),
               Datetime(year, row.month,
                        Min(args.bill_end_day, MonthRange(year, row.month)), 23, 59, 59)>>

\* ts lies in the period of an entry of the call, start floored to a quarter hour
InAnEntryPeriod(ts) ==
    IF op = "monthly_to_intervals"
    THEN \E j \in ValidRows :
            LET period == StatedPeriod(args.monthly_rows[j])
            IN  period[1] - (period[1] % 900) <= ts /\ ts <= period[2]
    ELSE /\ Datetime(args.range[1][1], args.range[1][2], args.range[1][3], 0, 0, 0) <= ts
         /\ ts <= Datetime(args.range[2][1], args.range[2][2], args.range[2][3], 23, 59, 59)

\* C19 as stated: every emitted record has a timestamp on a quarter hour, a
\* non-negative energy and a duration of 15 minutes, and its timestamp lies
\* between periodStart (floored to a quarter hour) and periodEnd of an entry.
C19_RecordShape ==
    ( /\ AggregatorReturned
      /\ op = "monthly_to_intervals" => args.bill_end_day \in 0..31 )
        => \A i \in 1..Len(result) :
              /\ result[i].timestamp % 900 = 0
              /\ result[i].consumption >= 0
              /\ result[i].interval_minutes = 15
              /\ InAnEntryPeriod(result[i].timestamp)

\* C20 as stated: no record returned by monthly_to_intervals or
\* annual_to_intervals has an emitted energy equal to 0, for every total >= 0.
C20_NoZeroRecords ==
    AggregatorReturned => \A i \in 1..Len(result) : result[i].consumption # 0

\* the bucket dict and the list of the same call run with the clock in year now_year
BucketsInYear(now_year) ==
    MonthlyBuckets(args.monthly_rows, args.bill_end_day,
                   args.unusual_travel_dates, HomeDetailsArg, now_year)
ResultInYear(now_year) == OutputList(BucketsInYear(now_year))

ProfileVaried == "home_details" \notin DOMAIN args \/ args.home_details # <<>>

\* every profile other than the one the call was made with
OtherProfiles == (HomeDetails \cup HomeProfiles) \ {HomeDetailsArg}

DatesInRanges(dates, ranges) ==
    {d \in dates : \E i \in 1..Len(ranges) : ranges[i][1] <= d /\ d <= ranges[i][2]}

\* the quarter hours of a period whose date is outside `excluded`
Surviving(period, excluded) ==
    {ts \in QuarterHours(period[1], period[2]) : DateOf(ts) \notin excluded}

\* the year monthly_to_intervals resolves every period of the batch with
CodeYear ==
    IF BatchYear(args.monthly_rows) = 0 THEN args.now_year
    ELSE BatchYear(args.monthly_rows)

\* C23: a candidate bucket is dropped iff its date lies in [start, end] of some
\* travel range: a distributor call keeps exactly the candidates of its period
\* on dates outside all ranges, the bucket dict of monthly_to_intervals holds
\* exactly those candidates of its months' periods, that of annual_to_intervals
\* exactly those of its days, and no emitted record falls on a travel date.
C23_TravelExclusion ==
    /\ Returned("_split_to_15min_flat")
          => LET period == args.start_end
                 dates == DateOf(period[1])..DateOf(period[2])
             IN  \/ DOMAIN result = Surviving(period, DatesInRanges(dates, args.travel_ranges))
                 \/ /\ RoundHalfEven(<<period[2] - period[1], 900>>) <= 0
                    /\ DOMAIN result = {}
    /\ Returned("monthly_to_intervals")
          => LET months == DOMAIN MonthlyDict(args.monthly_rows)
                 Period(m) == MonthPeriod(CodeYear, m, args.bill_end_day)
                 Excluded(m) == ExcludedAmong(DateOf(Period(m)[1])..DateOf(Period(m)[2]),
                                              args.unusual_travel_dates)
             IN  /\ DOMAIN all_intervals =
                       UNION {Surviving(Period(m), Excluded(m)) : m \in months}
                 /\ \A i \in 1..Len(result) :
                       ExcludedAmong({DateOf(result[i].timestamp)},
                                     args.unusual_travel_dates) = {}
    /\ ( /\ Returned("annual_to_intervals")
         /\ AnnualFault(args.range[1], args.range[2]) = "none" )
          => LET kept_days == AnnualDays \ ExcludedAmong(AnnualDays, args.unusual_travel_dates)
             IN  /\ DOMAIN all_intervals = UNION {DayQuarterHours(d) : d \in kept_days}
                 /\ \A i \in 1..Len(result) :
                       DateOf(result[i].timestamp) \in kept_days

\* the distributor over 2024-02-09 .. 2024-02-13 with the ranges 10-11 and
\* 11-12 February: the 192 buckets of 9 and 13 February remain
C23_Witness ==
    /\ Returned("_split_to_15min_flat")
    /\ args.start_end = <<Datetime(2024, 2, 9, 0, 0, 0), Datetime(2024, 2, 13, 23, 59, 59)>>
    /\ Len(args.travel_ranges) = 2
    /\ Cardinality(DOMAIN result) = 192
    /\ {DateOf(ts) : ts \in DOMAIN result} = {ToOrdinal(2024, 2, 9), ToOrdinal(2024, 2, 13)}

\* round(seconds / 60 / 15): the nearest whole number of quarter hours, a tie
\* going to the even one
BucketCount(seconds) ==
    LET whole == seconds \div 900
        rest == seconds % 900
    IN  IF rest < 450 THEN whole
        ELSE IF rest > 450 THEN whole + 1
        ELSE IF whole % 2 = 0 THEN whole ELSE whole + 1

\* the candidates of the call's period that lie outside its travel ranges
KeptCandidates ==
    Surviving(args.start_end,
              DatesInRanges(DateOf(args.start_end[1])..DateOf(args.start_end[2]),
                            args.travel_ranges))

\* C24: in the map one distributor call returns all buckets carry the same
\* energy: total / bucketCount when keptCount >= bucketCount, total / keptCount
\* when 0 < keptCount < bucketCount; a period with bucketCount <= 0 yields the
\* empty map.
C24_FlatDistribution ==
    Returned("_split_to_15min_flat")
        => LET bucketCount == BucketCount(args.start_end[2] - args.start_end[1])
               keptCount == Cardinality(KeptCandidates)
           IN  /\ bucketCount <= 0 => DOMAIN result = {}
               /\ bucketCount > 0 =>
                     /\ DOMAIN result = KeptCandidates
                     /\ \A ts \in DOMAIN result :
                           result[ts] = IF keptCount >= bucketCount
                                        THEN Rat(args.total_kwh, bucketCount)
                                        ELSE Rat(args.total_kwh, keptCount)

\* the day window 00:00 .. 23:45 without travel: bucketCount 95, 96 buckets kept,
\* each carrying total / 95
C24_Witness ==
    /\ Returned("_split_to_15min_flat")
    /\ args.start_end = DayWindow(ToOrdinal(2024, 2, 11))
    /\ args.travel_ranges = <<>>
    /\ args.total_kwh = 12005000
    /\ Cardinality(DOMAIN result) = 96
    /\ \A ts \in DOMAIN result : result[ts] = Rat(12005000, 95)

\* five days of which three are travel days: bucketCount 480, 192 buckets kept,
\* each carrying total / 192
C24_WitnessRenormalized ==
    /\ Returned("_split_to_15min_flat")
    /\ args.start_end = <<Datetime(2024, 2, 9, 0, 0, 0), Datetime(2024, 2, 13, 23, 59, 59)>>
    /\ Len(args.travel_ranges) = 1
    /\ args.total_kwh = 12005000
    /\ Cardinality(DOMAIN result) = 192
    /\ \A ts \in DOMAIN result : result[ts] = Rat(12005000, 192)

\* a period as monthly_to_intervals passes it: midnight of the first day up to
\* 23:59:59 of the last day
EndsAtLastSecond(start_end) ==
    /\ start_end[1] % 86400 = 0
    /\ start_end[2] % 86400 = 86399
    /\ start_end[2] > start_end[1]

\* a period as annual_to_intervals passes it: one day, 00:00 .. 23:45
IsDayWindow(start_end) ==
    /\ start_end[1] % 86400 = 0
    /\ start_end[2] = start_end[1] + 85500

\* C25: for every period the aggregators pass to the distributor (a month or
\* cutoff-day cycle ending at 23:59:59, or one day 00:00 .. 23:45) the number of
\* candidate timestamps equals bucketCount = round(minutes / 15), so that
\* without exclusions exactly bucketCount buckets of total / bucketCount are
\* returned.
C25_CandidateCountMatches ==
    /\ Returned("_split_to_15min_flat")
    /\ EndsAtLastSecond(args.start_end) \/ IsDayWindow(args.start_end)
    /\ args.travel_ranges = <<>>
    => LET bucketCount == BucketCount(args.start_end[2] - args.start_end[1])
       IN  /\ Cardinality(QuarterHours(args.start_end[1], args.start_end[2])) = bucketCount
           /\ Cardinality(DOMAIN result) = bucketCount
           /\ \A ts \in DOMAIN result : result[ts] = Rat(args.total_kwh, bucketCount)

\* the batch of the call with its entries listed in the opposite order
ReversedRows ==
    [i \in 1..Len(args.monthly_rows) |-> args.monthly_rows[Len(args.monthly_rows) + 1 - i]]

\* C26: the output of monthly_to_intervals does not depend on the order of the
\* batch's entries: listing the same entries in the opposite order, with the
\* same cutoff day and travel ranges, yields the same buckets.
C26_OrderIndependence ==
    Returned("monthly_to_intervals")
        => all_intervals = MonthlyBuckets(ReversedRows, args.bill_end_day,
                                          args.unusual_travel_dates, HomeDetailsArg,
                                          args.now_year)

\* the same statement for batches whose entries name distinct months of one
\* stated year: there the order does not show
C26_DistinctMonthsOneYear ==
    /\ Returned("monthly_to_intervals")
    /\ DistinctMonthsOneYear
    => all_intervals = MonthlyBuckets(ReversedRows, args.bill_end_day,
                                      args.unusual_travel_dates, HomeDetailsArg,
                                      args.now_year)

\* ---------------------------------------------------------------------------
\* webhook_server.py: the SMT proxy endpoints and POST /trigger/smt-now
\* ---------------------------------------------------------------------------

\* the longest list of steps a create_agreement_and_subscription request carries
MaxSteps == 3

\* lines 80-84: the headers accepted for the shared secret, in lookup order
ACCEPT_HEADERS == <<"x-intelliwatt-secret", "x-proxy-secret", "x-droplet-webhook-secret">>

\* header texts holding a character outside ASCII (http.server decodes header
\* bytes as ISO-8859-1, so the byte E9 arrives as one non-ASCII character)
NonAsciiTexts == {"t<E9>k", "s<E9>3"}

\* secrets.compare_digest / hmac.compare_digest on two str (lines 1008, 1970):
\* TypeError when either holds a non-ASCII character, else their equality
CompareDigest(a, b) ==
    IF a \in NonAsciiTexts \/ b \in NonAsciiTexts THEN "TypeError"
    ELSE IF a = b THEN "equal"
    ELSE "differ"

\* str.strip() on the texts used here
Strip(text) == IF text = " tok" THEN "tok" ELSE text

\* headers.get(name) or "": the header's text, "" when the request lacks it
Header(name) == IF name \in DOMAIN args.headers THEN args.headers[name] ELSE ""

\* _write_json(status, payload): one application/json response
JsonResponse(status, payload) == [status |-> status, json |-> TRUE, body |-> payload]

\* lines 986-1027: "accepted", or the refusal written, or the exception raised
EnsureProxyAuth ==
    IF env.SMT_PROXY_TOKEN = "" THEN "token_not_configured"
    ELSE IF "Authorization" \notin DOMAIN args.headers THEN "unauthorized"
    ELSE LET auth_header == args.headers["Authorization"]
         IN  IF auth_header[1] # "Bearer" THEN "unauthorized"
             ELSE LET incoming_token == Strip(auth_header[2])
                      digest == CompareDigest(incoming_token, env.SMT_PROXY_TOKEN)
                  IN  IF digest = "TypeError" THEN "TypeError"
                      ELSE IF digest = "equal" THEN "accepted"
                      ELSE "unauthorized"

\* the response _ensure_proxy_auth writes when it refuses
AuthRefusal(verdict) ==
    IF verdict = "token_not_configured"
    THEN JsonResponse(500, [ok |-> FALSE, error |-> "smt_proxy_token_not_configured"])
    ELSE JsonResponse(401, [ok |-> FALSE, error |-> "unauthorized"])

\* lines 1029-1039: the payload dict, or None (the record NoPayload) for a body
\* that is missing (unless allow_empty), not JSON or not an object
NoPayload == [none |-> TRUE]
IsNone(payload) == "none" \in DOMAIN payload
EmptyPayload == [member \in {} |-> ""]
ReadJsonPayload(allow_empty) ==
    IF args.body = "empty" THEN (IF allow_empty THEN EmptyPayload ELSE NoPayload)
    ELSE IF args.body = "invalid" THEN NoPayload
    ELSE args.payload

\* payload.get(member) is truthy
Has(payload, member) == member \in DOMAIN payload

\* line 237
SmtSuccess(status) == 200 <= status /\ status < 300

\* what SMT does with one request: the token endpoint answers or not, the POST
\* raises or answers with a status and a body that may carry the
\* 'Subcription is already active' fault
Upstream ==
    [token : {"ok", "fail"}, raises : BOOLEAN, status : {200, 400, 500},
     already_active : BOOLEAN]

\* lines 795-903: smt_post(path, body): the requests sent, and the exception
\* raised or the status and body returned
SmtPost(path, upstream) ==
    IF env.SMT_PASSWORD = ""
    THEN [calls |-> <<>>, raised |-> "Exception", status |-> 0, already_active |-> FALSE]
    ELSE IF upstream.token = "fail"
    THEN [calls |-> <<"/v2/token/">>, raised |-> "Exception", status |-> 0,
          already_active |-> FALSE]
    ELSE IF upstream.raises
    THEN [calls |-> <<"/v2/token/", path>>, raised |-> "Exception", status |-> 0,
          already_active |-> FALSE]
    ELSE [calls |-> <<"/v2/token/", path>>, raised |-> "none", status |-> upstream.status,
          already_active |-> upstream.already_active]

\* lines 252-266: _smt_base_ids() returns only when both identities are set
BaseIdsConfigured == env.SMT_USERNAME # "" /\ env.SMT_REQUESTOR_AUTH_ID # ""

\* lines 269-383: the smt_* wrappers: _smt_base_ids, then smt_post; those that
\* check the status raise SmtProxyRequestError on a non-2xx answer
SmtRequest(path, upstream, checks_status) ==
    IF ~BaseIdsConfigured
    THEN [calls |-> <<>>, raised |-> "ValueError", status |-> 0, already_active |-> FALSE]
    ELSE LET response == SmtPost(path, upstream)
         IN  IF response.raised = "none" /\ checks_status /\ ~SmtSuccess(response.status)
             THEN [response EXCEPT !.raised = "SmtProxyRequestError"]
             ELSE response

\* the try/except around a wrapper call (e.g. lines 1600-1621, 1636-1643)
GuardedReply(response) ==
    IF response.raised = "SmtProxyRequestError"
    THEN JsonResponse(502, [ok |-> FALSE, status |-> response.status,
                            error |-> "smt_request_failed"])
    ELSE IF response.raised # "none"
    THEN JsonResponse(500, [ok |-> FALSE, error |-> "Unexpected SMT proxy error"])
    ELSE JsonResponse(200, [ok |-> TRUE, status |-> response.status])

\* int(str(payload.get("agreementNumber")).strip()) succeeds
AgreementNumberParses(payload) == Has(payload, "agreementNumber")

\* the handler returns after writing `reply`, having made no SMT request
Reply(reply) ==
    /\ responses' = Append(responses, reply)
    /\ pc' = "done"
    /\ UNCHANGED <<raised, smt_calls, response_steps>>

\* an exception escapes the handler before it sent anything to SMT
Escapes(exception) ==
    /\ raised' = exception
    /\ pc' = "done"
    /\ UNCHANGED <<responses, smt_calls, response_steps>>

\* a handler whose SMT request sits in try/except: the request is made and the
\* outcome is answered with 200, 502 or 500
GuardedCall(path, checks_status) ==
    \E upstream \in Upstream :
        LET response == SmtRequest(path, upstream, checks_status)
        IN  /\ smt_calls' = smt_calls \o response.calls
            /\ responses' = Append(responses, GuardedReply(response))
            /\ pc' = "done"
            /\ UNCHANGED <<raised, response_steps>>

\* a handler whose SMT request sits outside any try (lines 1702, 1798, 1225):
\* an exception of the wrapper leaves the handler
UnguardedCall(path) ==
    \E upstream \in Upstream :
        LET response == SmtRequest(path, upstream, FALSE)
        IN  /\ smt_calls' = smt_calls \o response.calls
            /\ pc' = "done"
            /\ UNCHANGED response_steps
            /\ IF response.raised # "none"
               THEN raised' = response.raised /\ UNCHANGED responses
               ELSE /\ responses' = Append(responses,
                          JsonResponse(200, [ok |-> SmtSuccess(response.status),
                                             status |-> response.status]))
                    /\ UNCHANGED raised

\* what every webhook action leaves alone
WebhookFrame == UNCHANGED <<op, args, all_intervals, result, log, env, commands, tmp_files>>

\* a proxy handler has been handed the request with this path
ProxyEntry(path) ==
    /\ pc = "call"
    /\ op = "H.do_POST"
    /\ args.path = path
    /\ WebhookFrame

\* the part every proxy handler starts with: _ensure_proxy_auth, then the
\* payload; "accepted" when the handler goes on
ProxyPrologue(allow_empty) ==
    LET verdict == EnsureProxyAuth
    IN  IF verdict # "accepted" THEN verdict
        ELSE IF IsNone(ReadJsonPayload(allow_empty)) THEN "invalid_json"
        ELSE "accepted"

\* how the handler ends when its prologue does not accept the request
PrologueExit(outcome) ==
    IF outcome = "TypeError" THEN Escapes("TypeError")
    ELSE IF outcome = "invalid_json"
    THEN Reply(JsonResponse(400, [ok |-> FALSE, error |-> "invalid_json"]))
    ELSE Reply(AuthRefusal(outcome))
\* lines 1578-1643
ReportStatusRest(payload) ==
    IF ~Has(payload, "correlationId")
    THEN Reply(JsonResponse(400, [ok |-> FALSE, error |-> "missing_correlationId"]))
    ELSE GuardedCall("/v2/reportrequeststatus/", TRUE)

HandleSmtReportStatus ==
    /\ ProxyEntry("/smt/report-status")
    /\ IF ProxyPrologue(FALSE) # "accepted" THEN PrologueExit(ProxyPrologue(FALSE))
       ELSE ReportStatusRest(ReadJsonPayload(FALSE))

\* lines 1645-1685
SubscriptionsListRest(payload) == GuardedCall("/v2/Mysubscriptions/", TRUE)

HandleSmtSubscriptionsList ==
    /\ ProxyEntry("/smt/subscriptions/list")
    /\ IF ProxyPrologue(TRUE) # "accepted" THEN PrologueExit(ProxyPrologue(TRUE))
       ELSE SubscriptionsListRest(ReadJsonPayload(TRUE))

\* lines 1687-1711
SubscriptionsUnsubscribeRest(payload) ==
    IF ~Has(payload, "subscriptionNumber")
    THEN Reply(JsonResponse(400, [ok |-> FALSE, error |-> "missing_subscriptionNumber"]))
    ELSE UnguardedCall("/v2/UnSubscription/")

HandleSmtSubscriptionsUnsubscribe ==
    /\ ProxyEntry("/smt/subscriptions/unsubscribe")
    /\ IF ProxyPrologue(FALSE) # "accepted" THEN PrologueExit(ProxyPrologue(FALSE))
       ELSE SubscriptionsUnsubscribeRest(ReadJsonPayload(FALSE))

\* lines 1713-1762
AgreementsEsiidsRest(payload) ==
    IF ~AgreementNumberParses(payload)
    THEN Reply(JsonResponse(400, [ok |-> FALSE, error |-> "invalid_agreementNumber"]))
    ELSE GuardedCall("/v2/AgreementESIIDs/", TRUE)

HandleSmtAgreementsEsiids ==
    /\ ProxyEntry("/smt/agreements/esiids")
    /\ IF ProxyPrologue(FALSE) # "accepted" THEN PrologueExit(ProxyPrologue(FALSE))
       ELSE AgreementsEsiidsRest(ReadJsonPayload(FALSE))

\* lines 1764-1821
AgreementsTerminateRest(payload) ==
    IF ~AgreementNumberParses(payload)
    THEN Reply(JsonResponse(400, [ok |-> FALSE, error |-> "invalid_agreementNumber"]))
    ELSE IF ~Has(payload, "retailCustomerEmail")
    THEN Reply(JsonResponse(400, [ok |-> FALSE, error |-> "missing_retailCustomerEmail"]))
    ELSE UnguardedCall("/v2/Terminateagreement/")

HandleSmtAgreementsTerminate ==
    /\ ProxyEntry("/smt/agreements/terminate")
    /\ IF ProxyPrologue(FALSE) # "accepted" THEN PrologueExit(ProxyPrologue(FALSE))
       ELSE AgreementsTerminateRest(ReadJsonPayload(FALSE))

\* lines 1823-1898: agreementNumber is optional, but must parse when given
AgreementsMyagreementsRest(payload) ==
    IF Has(payload, "agreementNumber_text")
    THEN Reply(JsonResponse(400, [ok |-> FALSE, error |-> "invalid_agreementNumber"]))
    ELSE GuardedCall("/v2/myagreements/", TRUE)

HandleSmtAgreementsMyagreements ==
    /\ ProxyEntry("/smt/agreements/myagreements")
    /\ IF ProxyPrologue(TRUE) # "accepted" THEN PrologueExit(ProxyPrologue(TRUE))
       ELSE AgreementsMyagreementsRest(ReadJsonPayload(TRUE))
\* str.lower() on the step names used here
Lower(name) ==
    CASE name = "NewAgreement" -> "newagreement"
      [] name = "NewSubscription" -> "newsubscription"
      [] OTHER -> name

\* lines 1357-1390: the steps of the request: payload['steps'] when it is a
\* non-empty list, else one default step per 'agreement' / 'subscription' member
DefaultStep(member, name, path) ==
    [name |-> IF "name" \in DOMAIN member THEN member.name ELSE name,
     path |-> IF "path" \in DOMAIN member THEN member.path ELSE path,
     body |-> IF "body" \in DOMAIN member THEN member.body ELSE "object"]

Steps(payload) ==
    IF Has(payload, "steps") /\ Len(payload.steps) > 0 THEN payload.steps
    ELSE (IF Has(payload, "agreement")
          THEN <<DefaultStep(payload.agreement, "NewAgreement", "/v2/NewAgreement/")>>
          ELSE <<>>)
         \o (IF Has(payload, "subscription")
             THEN <<DefaultStep(payload.subscription, "NewSubscription", "/v2/NewSubscription/")>>
             ELSE <<>>)

\* lines 1360-1371, 1397-1420: a step must be an object with a non-blank text
\* path and an object body
ValidStep(step) ==
    /\ "not_object" \notin DOMAIN step
    /\ "path" \in DOMAIN step
    /\ "body" \in DOMAIN step
    /\ step.body \in {"object", "meter_int"}

\* line 1421: {"name": name or path, "path": path, "body": body}; a name that
\* is not text (name_int) is kept as it is
ValidatedStep(step) ==
    IF "name_int" \in DOMAIN step THEN step
    ELSE [name |-> IF "name" \in DOMAIN step THEN step.name ELSE step.path,
          path |-> step.path, body |-> step.body]

ValidatedSteps ==
    LET steps == Steps(args.payload)
    IN  [i \in 1..Len(steps) |-> ValidatedStep(steps[i])]

\* lines 1423-1441: the first step with a text name spelling NewAgreement is
\* hydrated unless remove_meter; maybe_hydrate_meter_number (line 175) calls
\* .strip() on a meterNumber that is not text
HydrationRaises(validated_steps, remove_meter) ==
    LET agreements == {i \in 1..Len(validated_steps) :
                          /\ "name" \in DOMAIN validated_steps[i]
                          /\ Lower(validated_steps[i].name) = "newagreement"}
    IN  /\ ~remove_meter
        /\ agreements # {}
        /\ validated_steps[CHOOSE i \in agreements : \A j \in agreements : i <= j].body
              = "meter_int"

\* lines 1291-1336: smt_request_interval_backfill in try / except Exception
BackfillCall ==
    \E upstream \in Upstream :
        LET response == SmtRequest("/v2/15minintervalreads/", upstream, TRUE)
        IN  /\ smt_calls' = smt_calls \o response.calls
            /\ responses' = Append(responses,
                  IF response.raised # "none"
                  THEN JsonResponse(500, [ok |-> FALSE, error |-> "backfill_failed"])
                  ELSE JsonResponse(200, [ok |-> TRUE, jobId |-> "job"]))
            /\ pc' = "done"
            /\ UNCHANGED <<raised, response_steps>>

\* lines 1338-1455: the create_agreement_and_subscription action up to the loop
CreateRest(payload, remove_meter) ==
    LET steps == Steps(payload)
    IN  IF \E i \in 1..Len(steps) : "not_object" \in DOMAIN steps[i]
        THEN Reply(JsonResponse(400, [ok |-> FALSE, error |-> "invalid_step"]))
        ELSE IF steps = <<>>
        THEN Reply(JsonResponse(400, [ok |-> FALSE, error |-> "missing_steps"]))
        ELSE IF \E i \in 1..Len(steps) : ~ValidStep(steps[i])
        THEN Reply(JsonResponse(400, [ok |-> FALSE, error |-> "invalid_step"]))
        ELSE IF HydrationRaises(ValidatedSteps, remove_meter)
        THEN Escapes("AttributeError")
        ELSE /\ pc' = "steps"
             /\ UNCHANGED <<responses, raised, smt_calls, response_steps>>

\* lines 1053-1455: the action named by the payload, create_agreement_and_subscription
\* when it names none
AgreementsRest(payload, remove_meter) ==
    LET action_str == IF Has(payload, "action") THEN payload.action
                      ELSE "create_agreement_and_subscription"
    IN  IF action_str = "list_subscriptions" THEN SubscriptionsListRest(payload)
        ELSE IF action_str = "report_status" THEN ReportStatusRest(payload)
        ELSE IF action_str = "agreement_esiids" THEN AgreementsEsiidsRest(payload)
        ELSE IF action_str = "terminate_agreement" THEN AgreementsTerminateRest(payload)
        ELSE IF action_str = "myagreements" THEN AgreementsMyagreementsRest(payload)
        ELSE IF action_str = "request_interval_backfill"
        THEN (IF Has(payload, "esiid") /\ Has(payload, "startDate") /\ Has(payload, "endDate")
              THEN BackfillCall
              ELSE Reply(JsonResponse(400, [ok |-> FALSE, error |-> "missing_required_fields"])))
        ELSE IF action_str = "create_agreement_and_subscription"
        THEN CreateRest(payload, remove_meter)
        ELSE Reply(JsonResponse(400, [ok |-> FALSE, error |-> "unsupported_action"]))

AgreementsWithMeter(payload) == AgreementsRest(payload, FALSE)
AgreementsNoMeter(payload) == AgreementsRest(payload, TRUE)

\* lines 1041-1045
HandleAgreements ==
    /\ ProxyEntry("/agreements")
    /\ IF ProxyPrologue(FALSE) # "accepted" THEN PrologueExit(ProxyPrologue(FALSE))
       ELSE AgreementsWithMeter(ReadJsonPayload(FALSE))

\* lines 1047-1051
HandleAgreementsNoMeter ==
    /\ ProxyEntry("/agreements-no-meter")
    /\ IF ProxyPrologue(FALSE) # "accepted" THEN PrologueExit(ProxyPrologue(FALSE))
       ELSE AgreementsNoMeter(ReadJsonPayload(FALSE))

\* lines 906-942: ok when the status is 2xx, or 400 with the 'Subcription is
\* already active' fault in the body
NormalizeSubscriptionResponse(status, already_active) ==
    IF SmtSuccess(status) THEN [ok |-> TRUE, status |-> "created"]
    ELSE IF status = 400 /\ already_active THEN [ok |-> TRUE, status |-> "already_active"]
    ELSE [ok |-> FALSE, status |-> "failed"]

\* lines 1507-1560: the error the loop stops with after an answered step,
\* "none" when it goes on
StepErrorNever(step_name, status, already_active) == "none"

StepError(step_name, status, already_active) ==
    IF step_name = "newagreement" /\ ~SmtSuccess(status) THEN "agreement_failed"
    ELSE IF step_name = "newsubscription"
            /\ ~NormalizeSubscriptionResponse(status, already_active).ok
    THEN "subscription_failed"
    ELSE "none"

\* lines 1477-1483: the entry of an answered step
Entry(step, response) ==
    IF "name_int" \in DOMAIN step
    THEN [name_int |-> step.name_int, path |-> step.path, httpStatus |-> response.status,
          already_active |-> response.already_active]
    ELSE [name |-> step.name, path |-> step.path, httpStatus |-> response.status,
          already_active |-> response.already_active]

\* lines 1461-1576: one pass of the loop over validated_steps: the next step is
\* posted; the handler answers 502 when the post raises or the step failed,
\* dies on a name that is not text (line 1486), answers 200 after the last step
PostStep ==
    /\ pc = "steps"
    /\ WebhookFrame
    /\ \E upstream \in Upstream :
        LET step == ValidatedSteps[Len(response_steps) + 1]
            smt_response == SmtPost(step.path, upstream)
            entries == Append(response_steps, Entry(step, smt_response))
        IN  /\ smt_calls' = smt_calls \o smt_response.calls
            /\ IF smt_response.raised # "none"
               THEN /\ responses' = Append(responses,
                          JsonResponse(502, [ok |-> FALSE, error |-> "smt_post_raised",
                                             partialResults |-> response_steps]))
                    /\ pc' = "done"
                    /\ UNCHANGED <<raised, response_steps>>
               ELSE /\ response_steps' = entries
                    /\ IF "name_int" \in DOMAIN step
                       THEN /\ raised' = "AttributeError"
                            /\ pc' = "done"
                            /\ UNCHANGED responses
                       ELSE LET error == StepError(Lower(step.name), smt_response.status,
                                                   smt_response.already_active)
                            IN  /\ UNCHANGED raised
                                /\ IF error # "none"
                                   THEN /\ responses' = Append(responses,
                                              JsonResponse(502, [ok |-> FALSE, error |-> error,
                                                                 partialResults |-> entries]))
                                        /\ pc' = "done"
                                   ELSE IF Len(entries) = Len(ValidatedSteps)
                                   THEN /\ responses' = Append(responses,
                                              JsonResponse(200, [ok |-> TRUE, results |-> entries]))
                                        /\ pc' = "done"
                                   ELSE /\ pc' = "steps"
                                        /\ UNCHANGED responses
\* lines 1939-1944: the first accepted header that has a value, stripped
Got ==
    LET present == {i \in 1..Len(ACCEPT_HEADERS) : Header(ACCEPT_HEADERS[i]) # ""}
    IN  IF present = {} THEN ""
        ELSE Strip(Header(ACCEPT_HEADERS[CHOOSE i \in present : \A j \in present : i <= j]))

\* lines 1955-1975: "accepted", "unauthorized", or the TypeError of hmac.compare_digest
SecretVerdict ==
    IF Got = "" THEN "unauthorized"
    ELSE IF env.SECRETS = {} THEN "unauthorized"
    ELSE IF \E s \in env.SECRETS : CompareDigest(Got, s) = "TypeError" THEN "TypeError"
    ELSE IF \E s \in env.SECRETS : CompareDigest(Got, s) = "equal" THEN "accepted"
    ELSE "unauthorized"

\* lines 1985-1992, 482-498, 539-609, 630-657: run_default_command always runs
\* bash; handle_smt_authorized starts the ingest script and handle_smt_meter_info
\* the node script when the payload names an ESIID
TriggerCommands ==
    LET payload == IF args.body = "object" THEN args.payload ELSE EmptyPayload
        reason == IF Has(payload, "reason") THEN payload.reason ELSE ""
    IN  <<"run_default_command">>
        \o (IF reason \in {"smt_authorized", "admin_triggered"} /\ Has(payload, "esiid")
            THEN <<"fetch_and_post.sh">>
            ELSE IF reason = "smt_meter_info" /\ Has(payload, "esiid")
            THEN <<"test_smt_meter_info.mjs">>
            ELSE <<>>)

\* lines 1933-2003: POST /trigger/smt-now
TriggerSmtNow ==
    /\ pc = "call"
    /\ op = "H.do_POST"
    /\ args.path = "/trigger/smt-now"
    /\ UNCHANGED <<op, args, all_intervals, result, log, env, tmp_files, smt_calls,
                   response_steps>>
    /\ pc' = "done"
    /\ LET verdict == SecretVerdict
       IN  IF verdict = "TypeError"
           THEN raised' = "TypeError" /\ UNCHANGED <<responses, commands>>
           ELSE IF verdict # "accepted"
           THEN /\ responses' = Append(responses,
                      JsonResponse(401, [ok |-> FALSE, error |-> "unauthorized"]))
                /\ UNCHANGED <<raised, commands>>
           ELSE \E spawn_fails \in BOOLEAN :
                   /\ UNCHANGED raised
                   /\ IF spawn_fails
                      THEN /\ responses' = Append(responses,
                                 JsonResponse(500, [ok |-> FALSE, error |-> "webhook error"]))
                           /\ UNCHANGED commands
                      ELSE /\ responses' = Append(responses,
                                 [status |-> 200, json |-> FALSE, body |-> [text |-> "ok"]])
                           /\ commands' = commands \o TriggerCommands

\* lines 1901-1931: the paths do_POST hands to a proxy handler
ProxyPaths ==
    {"/agreements", "/agreements-no-meter", "/smt/report-status", "/smt/subscriptions/list",
     "/smt/subscriptions/unsubscribe", "/smt/agreements/esiids", "/smt/agreements/terminate",
     "/smt/agreements/myagreements"}

\* lines 1933-1936: any other path is answered 404 without a body
NotFound ==
    /\ pc = "call"
    /\ op = "H.do_POST"
    /\ args.path \notin (ProxyPaths \cup {"/trigger/smt-now"})
    /\ WebhookFrame
    /\ Reply([status |-> 404, json |-> FALSE, body |-> EmptyPayload])
\* --- the requests and configurations explored ---

NoHeaders == [name \in {} |-> ""]
Bearer(credentials) == "Authorization" :> <<"Bearer", credentials>>

\* lines 73-95: the configuration read at start-up; "" is an unset variable
\* (SMT_USERNAME falls back to INTELLIPATH unless it is set to the empty text)
EnvDefault ==
    [SMT_PROXY_TOKEN |-> "tok", SECRETS |-> {"s3"}, SMT_USERNAME |-> "INTELLIPATH",
     SMT_REQUESTOR_AUTH_ID |-> "duns", SMT_PASSWORD |-> "pw"]

IdentityEnvs ==
    {EnvDefault,
     [EnvDefault EXCEPT !.SMT_REQUESTOR_AUTH_ID = ""],
     [EnvDefault EXCEPT !.SMT_USERNAME = ""],
     [EnvDefault EXCEPT !.SMT_PASSWORD = ""]}

TokenEnvs == {EnvDefault, [EnvDefault EXCEPT !.SMT_PROXY_TOKEN = ""]}

SecretEnvs ==
    {EnvDefault, [EnvDefault EXCEPT !.SECRETS = {}], [EnvDefault EXCEPT !.SECRETS = {"s3", "s4"}]}

AuthHeaders ==
    {NoHeaders, "Authorization" :> <<"Basic", "tok">>, "Authorization" :> <<"bearer", "tok">>,
     Bearer("tok"), Bearer(" tok"), Bearer("bad"), Bearer("t<E9>k"),
     "x-intelliwatt-secret" :> "s3"}

FullPayload ==
    [agreementNumber |-> 5, retailCustomerEmail |-> "a@b", subscriptionNumber |-> "7",
     correlationId |-> "c1", esiid |-> "1008", startDate |-> "01/01/2024",
     endDate |-> "12/31/2024"]

MemberPayloads ==
    {FullPayload,
     [agreementNumber_text |-> "abc", retailCustomerEmail |-> "a@b",
      subscriptionNumber |-> "7", correlationId |-> "c1"],
     [agreementNumber |-> 5],
     EmptyPayload}

LegacyActions ==
    {"list_subscriptions", "report_status", "agreement_esiids", "terminate_agreement",
     "myagreements", "request_interval_backfill", "delete_everything"}

WithAction(payload, action) ==
    [member \in DOMAIN payload \cup {"action"} |->
        IF member = "action" THEN action ELSE payload[member]]

Request(path, headers, body, payload) ==
    [path |-> path, headers |-> headers, body |-> body, payload |-> payload]

\* every proxy path under every Authorization header, token configured or not
AuthRequests ==
    {<<Request(path, headers, "object", FullPayload), environ>> :
        path \in ProxyPaths, headers \in AuthHeaders, environ \in TokenEnvs}

\* authorized requests: every body and member combination, every identity
BodyRequests ==
    {<<Request(path, Bearer("tok"), body, EmptyPayload), EnvDefault>> :
        path \in ProxyPaths, body \in {"empty", "invalid"}}
    \cup {<<Request(path, Bearer("tok"), "object", payload), environ>> :
            path \in ProxyPaths \ {"/agreements", "/agreements-no-meter"},
            payload \in MemberPayloads, environ \in IdentityEnvs}
    \cup {<<Request("/agreements", Bearer("tok"), "object", WithAction(payload, action)), environ>> :
            payload \in MemberPayloads, action \in LegacyActions, environ \in IdentityEnvs}

StepNewAgreement == [name |-> "NewAgreement", path |-> "/v2/NewAgreement/", body |-> "object"]
StepNewSubscription ==
    [name |-> "NewSubscription", path |-> "/v2/NewSubscription/", body |-> "object"]
StepOther == [name |-> "MeterAttributes", path |-> "/v2/meterattributes/", body |-> "object"]
StepUnnamed == [path |-> "/v2/NewAgreement/", body |-> "object"]
StepIntName == [name_int |-> 5, path |-> "/v2/NewSubscription/", body |-> "object"]
StepMeterInt == [name |-> "NewAgreement", path |-> "/v2/NewAgreement/", body |-> "meter_int"]

StepKinds == {StepNewAgreement, StepNewSubscription, StepOther, StepUnnamed, StepIntName}

StepLists ==
    (SeqsUpTo(StepKinds, MaxSteps) \ {<<>>})
    \cup {<<StepMeterInt, StepNewSubscription>>, <<StepOther, StepMeterInt>>}

InvalidStepLists ==
    {<<StepNewAgreement, [not_object |-> TRUE]>>,
     <<StepNewAgreement, [name |-> "NewSubscription", body |-> "object"]>>,
     <<StepNewAgreement, [name |-> "NewSubscription", path |-> "/v2/NewSubscription/",
                          body |-> "number"]>>,
     <<[name |-> "NewSubscription", path |-> "/v2/NewSubscription/"]>>}

CreatePayloads ==
    {[steps |-> steps] : steps \in StepLists \cup InvalidStepLists}
    \cup {[steps |-> <<StepNewAgreement, StepNewSubscription>>,
           action |-> "create_agreement_and_subscription"],
          [steps |-> <<>>],
          [agreement |-> EmptyPayload, subscription |-> EmptyPayload],
          [agreement |-> [body |-> "meter_int"]],
          [subscription |-> [name |-> "NewSubscription", body |-> "number"]]}

CreateRequests ==
    {<<Request(path, Bearer("tok"), "object", payload), EnvDefault>> :
        path \in {"/agreements", "/agreements-no-meter"}, payload \in CreatePayloads}
    \cup {<<Request("/agreements", headers, "object",
                    [steps |-> <<StepNewAgreement, StepNewSubscription>>]), environ>> :
            headers \in AuthHeaders, environ \in TokenEnvs \cup IdentityEnvs}

SecretHeaders ==
    {NoHeaders, Bearer("tok"),
     "x-intelliwatt-secret" :> "s3", "x-proxy-secret" :> "s3", "x-droplet-webhook-secret" :> "s4",
     "x-intelliwatt-secret" :> "zz", "x-intelliwatt-secret" :> "s<E9>3",
     ("x-intelliwatt-secret" :> "zz") @@ ("x-proxy-secret" :> "s3"),
     ("x-proxy-secret" :> "s3") @@ ("x-droplet-webhook-secret" :> "zz")}

TriggerPayloads ==
    {EmptyPayload, [reason |-> "smt_authorized", esiid |-> "1008"], [reason |-> "admin_triggered"],
     [reason |-> "smt_meter_info", esiid |-> "1008"], [reason |-> "smt_meter_info"],
     [reason |-> "other", esiid |-> "1008"]}

TriggerRequests ==
    {<<Request("/trigger/smt-now", headers, "object", payload), environ>> :
        headers \in SecretHeaders, payload \in TriggerPayloads, environ \in SecretEnvs}
    \cup {<<Request("/trigger/smt-now", "x-intelliwatt-secret" :> "s3", body, EmptyPayload),
            EnvDefault>> : body \in {"empty", "invalid"}}

OtherRequests ==
    {<<Request(path, headers, "empty", EmptyPayload), EnvDefault>> :
        path \in {"/", "/smt/agreements"}, headers \in {NoHeaders, Bearer("tok")}}

WebhookRequests ==
    AuthRequests \cup BodyRequests \cup CreateRequests \cup TriggerRequests \cup OtherRequests

\* a request has arrived at a server started under some configuration
InitWebhook ==
    /\ op = "H.do_POST"
    /\ \E request \in WebhookRequests : args = request[1] /\ env = request[2]
    /\ pc = "call"
    /\ all_intervals = NoIntervals
    /\ result = <<>>
    /\ raised = "none"
    /\ log = <<>>
    /\ responses = <<>>
    /\ smt_calls = <<>>
    /\ commands = <<>>
    /\ response_steps = <<>>
    /\ tmp_files = {}

NextWebhook ==
    \/ HandleAgreements
    \/ HandleAgreementsNoMeter
    \/ PostStep
    \/ HandleSmtReportStatus
    \/ HandleSmtSubscriptionsList
    \/ HandleSmtSubscriptionsUnsubscribe
    \/ HandleSmtAgreementsEsiids
    \/ HandleSmtAgreementsTerminate
    \/ HandleSmtAgreementsMyagreements
    \/ TriggerSmtNow
    \/ NotFound

SpecWebhook == InitWebhook /\ [][NextWebhook]_vars
\* the handler of a proxy request has returned or died
ProxyDone == pc = "done" /\ op = "H.do_POST" /\ args.path \in ProxyPaths

\* the request carries 'Authorization: Bearer <SMT_PROXY_TOKEN>' and the token
\* is configured
CarriesProxyToken ==
    /\ env.SMT_PROXY_TOKEN # ""
    /\ "Authorization" \in DOMAIN args.headers
    /\ args.headers["Authorization"][1] = "Bearer"
    /\ Strip(args.headers["Authorization"][2]) = env.SMT_PROXY_TOKEN

\* C27: every POST to an SMT proxy endpoint that passes authentication is
\* answered with exactly one JSON response, also when the SMT identity is not
\* configured, the token fetch fails or the upstream POST raises: no exception
\* leaves the handler.
C27_EveryProxyRequestAnswered ==
    ProxyDone /\ CarriesProxyToken
        => /\ raised = "none"
           /\ Len(responses) = 1
           /\ responses[1].json

\* the same statement for the handlers that wrap their SMT request in
\* try/except and for requests that are refused before any SMT request
C27_GuardedHandlersAnswer ==
    /\ ProxyDone
    /\ CarriesProxyToken
    /\ \/ args.path \in {"/smt/report-status", "/smt/subscriptions/list",
                         "/smt/agreements/esiids", "/smt/agreements/myagreements"}
       \/ /\ args.path = "/agreements"
          /\ Has(args.payload, "action")
          /\ args.payload.action \notin {"terminate_agreement", "create_agreement_and_subscription"}
    => /\ raised = "none"
       /\ Len(responses) = 1
       /\ responses[1].json

\* a state the model must reach: unsubscribe with SMT_REQUESTOR_AUTH_ID unset
C27_UnsubscribeDies ==
    /\ ProxyDone
    /\ args.path = "/smt/subscriptions/unsubscribe"
    /\ CarriesProxyToken
    /\ env.SMT_REQUESTOR_AUTH_ID = ""
    /\ raised = "ValueError"
    /\ responses = <<>>
    /\ smt_calls = <<>>
\* the paths posted to SMT among `calls`, token fetches aside
PostedPaths(calls) == SelectSeq(calls, LAMBDA call : call # "/v2/token/")

\* the answered step failed: a NewAgreement step answered non-2xx, or a
\* NewSubscription step answered neither 2xx nor 'already active' (400 with
\* the already-active fault)
StepFailed(step, entry) ==
    /\ "name" \in DOMAIN step
    /\ \/ /\ Lower(step.name) = "newagreement"
          /\ ~(200 <= entry.httpStatus /\ entry.httpStatus < 300)
       \/ /\ Lower(step.name) = "newsubscription"
          /\ ~(200 <= entry.httpStatus /\ entry.httpStatus < 300)
          /\ ~(entry.httpStatus = 400 /\ entry.already_active)

\* `written` is one 502 response whose partialResults is `entries`
Is502With(written, entries) ==
    /\ Len(written) = 1
    /\ written[1].status = 502
    /\ written[1].json
    /\ ~written[1].body.ok
    /\ written[1].body.partialResults = entries

\* C28: in the create_agreement_and_subscription action the validated steps
\* are posted one at a time in list order; as soon as a step raises, a
\* NewAgreement step is answered non-2xx, or a NewSubscription step is
\* answered neither 2xx nor 'already active', no later step is posted and the
\* response is 502 with partialResults listing exactly the steps answered so
\* far; 200 with ok = true is written only after every step has been posted.
C28_StepOrdering ==
    [][ /\ pc = "done" => smt_calls' = smt_calls /\ responses' = responses
        /\ pc = "steps" =>
            LET i == Len(response_steps) + 1
                step == ValidatedSteps[i]
                posted == PostedPaths(smt_calls)
                answered == response_steps' # response_steps
            IN  /\ Len(posted) = i - 1
                /\ \A j \in 1..(i - 1) : posted[j] = ValidatedSteps[j].path
                /\ responses = <<>>
                /\ \/ PostedPaths(smt_calls') = posted
                   \/ PostedPaths(smt_calls') = Append(posted, step.path)
                /\ answered =>
                      /\ Len(response_steps') = i
                      /\ SubSeq(response_steps', 1, i - 1) = response_steps
                      /\ response_steps'[i].path = step.path
                      /\ PostedPaths(smt_calls') = Append(posted, step.path)
                /\ ~answered => pc' = "done" /\ Is502With(responses', response_steps)
                /\ answered /\ StepFailed(step, response_steps'[i])
                      => pc' = "done" /\ Is502With(responses', response_steps')
                /\ pc' = "steps" => responses' = <<>> /\ i < Len(ValidatedSteps)
                /\ responses' # <<>> /\ responses'[1].status = 200
                      => /\ responses'[1].body.ok
                         /\ responses'[1].body.results = response_steps'
                         /\ Len(response_steps') = Len(ValidatedSteps)
                         /\ Len(PostedPaths(smt_calls')) = Len(ValidatedSteps)
      ]_vars

\* agreement accepted, subscription refused with HTTP 500: the third step is
\* never posted and the 502 lists the two answered steps
C28_Witness ==
    /\ ProxyDone
    /\ args.path = "/agreements"
    /\ "steps" \in DOMAIN args.payload
    /\ args.payload.steps = <<StepNewAgreement, StepNewSubscription, StepOther>>
    /\ Len(responses) = 1
    /\ responses[1].status = 502
    /\ responses[1].body.error = "subscription_failed"
    /\ Len(responses[1].body.partialResults) = 2
    /\ responses[1].body.partialResults[2].httpStatus = 500
    /\ smt_calls = <<"/v2/token/", "/v2/NewAgreement/", "/v2/token/", "/v2/NewSubscription/">>

\* three steps posted in order and answered 200
C28_WitnessAllPosted ==
    /\ ProxyDone
    /\ "steps" \in DOMAIN args.payload
    /\ args.payload.steps = <<StepNewAgreement, StepNewSubscription, StepOther>>
    /\ Len(responses) = 1
    /\ responses[1].status = 200
    /\ Len(responses[1].body.results) = 3
    /\ PostedPaths(smt_calls) = <<"/v2/NewAgreement/", "/v2/NewSubscription/", "/v2/meterattributes/">>
\* at least one secret is configured and the first accepted secret header
\* that has a value equals a configured secret
CarriesSecret == env.SECRETS # {} /\ Got \in env.SECRETS

\* the handler wrote exactly one JSON response, with this status
AnsweredWith(status) ==
    /\ raised = "none"
    /\ Len(responses) = 1
    /\ responses[1].json
    /\ responses[1].status = status

\* C29: no SMT call (token fetch or POST) is made for a proxy endpoint unless
\* the request carries 'Authorization: Bearer <SMT_PROXY_TOKEN>' with the token
\* configured (otherwise the answer is 500 when unconfigured, 401 on a missing
\* or wrong token), and POST /trigger/smt-now runs no command unless a secret
\* is configured and the first non-empty accepted secret header equals a
\* configured secret (otherwise 401).
C29_AuthPrecedesSideEffects ==
    op = "H.do_POST" =>
        /\ args.path \in ProxyPaths =>
              /\ smt_calls # <<>> => CarriesProxyToken
              /\ pc = "done" /\ ~CarriesProxyToken =>
                    AnsweredWith(IF env.SMT_PROXY_TOKEN = "" THEN 500 ELSE 401)
        /\ args.path = "/trigger/smt-now" =>
              /\ commands # <<>> => CarriesSecret
              /\ pc = "done" /\ ~CarriesSecret => AnsweredWith(401)

\* the part of C29 about side effects alone: no SMT call, no step of the create
\* loop and no command without the credentials
C29_NoSideEffectWithoutAuth ==
    op = "H.do_POST" =>
        /\ args.path \in ProxyPaths /\ ~CarriesProxyToken =>
              smt_calls = <<>> /\ response_steps = <<>> /\ pc # "steps" /\ commands = <<>>
        /\ args.path = "/trigger/smt-now" /\ ~CarriesSecret =>
              commands = <<>> /\ smt_calls = <<>>
        /\ args.path \notin ProxyPaths => smt_calls = <<>>
        /\ args.path # "/trigger/smt-now" => commands = <<>>

\* a wrong token holding a non-ASCII character: TypeError, nothing written
C29_NonAsciiTokenDies ==
    /\ ProxyDone
    /\ env.SMT_PROXY_TOKEN = "tok"
    /\ args.headers = Bearer("t<E9>k")
    /\ raised = "TypeError"
    /\ responses = <<>>
    /\ smt_calls = <<>>
\* ---------------------------------------------------------------------------
\* efl_pdftotext_server.py: POST /efl/pdftotext
\* ---------------------------------------------------------------------------

\* lines 179-188: the token the request presents: X-EFL-PDFTEXT-TOKEN, else
\* Authorization, stripped and without a leading 'Bearer '; "" when neither
\* header is there.  An Authorization header of another scheme presents its
\* whole text.
TokenValue ==
    IF "X-EFL-PDFTEXT-TOKEN" \in DOMAIN args.headers
    THEN Strip(args.headers["X-EFL-PDFTEXT-TOKEN"])
    ELSE IF "Authorization" \in DOMAIN args.headers
    THEN LET auth_header == args.headers["Authorization"]
         IN  IF auth_header[1] = "Bearer" THEN Strip(auth_header[2])
             ELSE IF auth_header[1] = "" THEN Strip(auth_header[2])
             ELSE "Basic tok"
    ELSE ""

\* lines 170-191: TRUE / FALSE as text, or the TypeError of secrets.compare_digest
IsTokenValid ==
    IF env.EFL_PDFTEXT_TOKEN = "" THEN "valid"
    ELSE IF TokenValue = "" THEN "invalid"
    ELSE LET digest == CompareDigest(TokenValue, env.EFL_PDFTEXT_TOKEN)
         IN  IF digest = "TypeError" THEN "TypeError"
             ELSE IF digest = "equal" THEN "valid"
             ELSE "invalid"

\* lines 104-138: _log_request compares the presented token again before any
\* response is written; compare_digest raises on a non-ASCII token
LogRequestRaises ==
    env.EFL_PDFTEXT_TOKEN # "" /\ CompareDigest(TokenValue, env.EFL_PDFTEXT_TOKEN) = "TypeError"

\* line 224-225: "application/json" in ctype.lower()
JsonContentTypes == {"application/json", "Application/JSON; charset=utf-8"}

\* lines 226-251: the 400 answered to a JSON body that yields no PDF bytes,
\* "none" when pdf_bytes is there
BodyError ==
    IF args.body = "empty" THEN "missing_body"
    ELSE IF args.ctype \notin JsonContentTypes THEN "none"
    ELSE IF args.body # "object" THEN "invalid_json"
    ELSE IF "pdfBase64" \notin DOMAIN args.payload \/ args.payload.pdfBase64 = ""
    THEN "missing_pdfBase64"
    ELSE IF args.payload.pdfBase64 = "!!!" THEN "invalid_base64"
    ELSE "none"

\* the name tempfile.NamedTemporaryFile gives the file of this request
TmpPath == "/tmp/tmp1.pdf"

EflFrame == UNCHANGED <<op, args, all_intervals, result, log, env, smt_calls, response_steps>>

\* lines 203-275: Handler.do_POST up to the temporary file: 404, 401 and 400
\* answers, then the PDF is written to a NamedTemporaryFile(delete=False); a
\* failure to create or to write it is answered 500, and the file is unlinked
\* when its name is known
MaterializePdf ==
    /\ pc = "call"
    /\ op = "Handler.do_POST"
    /\ EflFrame
    /\ UNCHANGED commands
    /\ IF args.path # "/efl/pdftotext"
       THEN /\ pc' = "done"
            /\ UNCHANGED tmp_files
            /\ IF LogRequestRaises
               THEN raised' = "TypeError" /\ UNCHANGED responses
               ELSE /\ responses' = Append(responses,
                          [status |-> 404, json |-> FALSE, body |-> EmptyPayload])
                    /\ UNCHANGED raised
       ELSE IF IsTokenValid = "TypeError"
       THEN /\ raised' = "TypeError"
            /\ pc' = "done"
            /\ UNCHANGED <<responses, tmp_files>>
       ELSE IF IsTokenValid = "invalid"
       THEN /\ responses' = Append(responses,
                  JsonResponse(401, [ok |-> FALSE, error |-> "unauthorized"]))
            /\ pc' = "done"
            /\ UNCHANGED <<raised, tmp_files>>
       ELSE IF BodyError # "none"
       THEN /\ responses' = Append(responses,
                  JsonResponse(400, [ok |-> FALSE, error |-> BodyError]))
            /\ pc' = "done"
            /\ UNCHANGED <<raised, tmp_files>>
       ELSE \E outcome \in {"written", "create_fails", "write_fails"} :
               /\ UNCHANGED raised
               /\ IF outcome = "written"
                  THEN /\ tmp_files' = tmp_files \cup {TmpPath}
                       /\ pc' = "pdftotext"
                       /\ UNCHANGED responses
                  ELSE /\ UNCHANGED tmp_files
                       /\ responses' = Append(responses,
                             JsonResponse(500, [ok |-> FALSE,
                                                error |-> "failed_to_write_tmp_pdf"]))
                       /\ pc' = "done"

\* os.unlink(tmp_path) (lines 322, 329, 338)
Unlink(files, path) == files \ {path}

\* lines 277-340: pdftotext runs on the file.  A spawn failure or timeout and
\* a non-zero exit are answered 500 and return; text is answered 200 and the
\* file is unlinked; empty text goes on to the OCR fallback
RunPdftotext ==
    /\ pc = "pdftotext"
    /\ EflFrame
    /\ UNCHANGED raised
    /\ \E outcome \in {"raises", "non_zero_exit", "text", "empty"} :
        /\ commands' = Append(commands, "pdftotext")
        /\ IF outcome = "raises"
           THEN /\ responses' = Append(responses,
                      JsonResponse(500, [ok |-> FALSE, error |-> "pdftotext_spawn_failed"]))
                /\ pc' = "done"
                /\ UNCHANGED tmp_files
           ELSE IF outcome = "non_zero_exit"
           THEN /\ responses' = Append(responses,
                      JsonResponse(500, [ok |-> FALSE, error |-> "pdftotext_non_zero_exit"]))
                /\ pc' = "done"
                /\ UNCHANGED tmp_files
           ELSE IF outcome = "text"
           THEN /\ responses' = Append(responses,
                      JsonResponse(200, [ok |-> TRUE, method |-> "pdftotext"]))
                /\ tmp_files' = Unlink(tmp_files, TmpPath)
                /\ pc' = "done"
           ELSE /\ pc' = "ocr"
                /\ UNCHANGED <<responses, tmp_files>>

\* lines 20-100: what _maybe_run_ocr starts: nothing when a tool is missing,
\* pdftoppm, and tesseract once pages were rendered
OcrCommands(outcome) ==
    IF outcome = "ocr_tools_missing" THEN <<>>
    ELSE IF outcome \in {"ocr_no_pages_rendered", "ocr_exception"} THEN <<"pdftoppm">>
    ELSE <<"pdftoppm", "tesseract">>

\* lines 316-332: the OCR fallback; its result, good or not, is answered 200
\* and the file is unlinked
MaybeRunOcr ==
    /\ pc = "ocr"
    /\ EflFrame
    /\ UNCHANGED raised
    /\ \E outcome \in {"ocr_tesseract", "ocr_tools_missing", "ocr_no_pages_rendered",
                       "ocr_empty_text", "ocr_exception"} :
        /\ commands' = commands \o OcrCommands(outcome)
        /\ responses' = Append(responses,
              JsonResponse(200, [ok |-> TRUE,
                                 method |-> IF outcome = "ocr_tesseract" THEN "ocr_tesseract"
                                            ELSE "pdftotext",
                                 ocr |-> outcome]))
        /\ tmp_files' = Unlink(tmp_files, TmpPath)
        /\ pc' = "done"

\* --- the requests and configurations explored ---

EflHeaders ==
    {NoHeaders, "X-EFL-PDFTEXT-TOKEN" :> "tok", "X-EFL-PDFTEXT-TOKEN" :> "bad",
     "X-EFL-PDFTEXT-TOKEN" :> "t<E9>k", Bearer("tok"), Bearer(" tok"), Bearer("bad"),
     "Authorization" :> <<"", "tok">>, "Authorization" :> <<"Basic", "tok">>,
     ("X-EFL-PDFTEXT-TOKEN" :> "bad") @@ Bearer("tok")}

EflBodies ==
    {[ctype |-> ctype, body |-> body, payload |-> EmptyPayload] :
        ctype \in {"application/pdf", ""} \cup JsonContentTypes,
        body \in {"empty", "pdf_bytes", "invalid", "array"}}
    \cup {[ctype |-> ctype, body |-> "object", payload |-> payload] :
            ctype \in {"application/pdf", "application/json"},
            payload \in {EmptyPayload, [pdfBase64 |-> ""], [pdfBase64 |-> "!!!"],
                         [pdfBase64 |-> "JVBERi0xLjQ="]}}

EflRequests ==
    {[path |-> path, headers |-> headers, ctype |-> content.ctype, body |-> content.body,
      payload |-> content.payload] :
        path \in {"/efl/pdftotext", "/health"}, headers \in EflHeaders, content \in EflBodies}

InitEfl ==
    /\ op = "Handler.do_POST"
    /\ args \in EflRequests
    /\ env \in {[EFL_PDFTEXT_TOKEN |-> "tok"], [EFL_PDFTEXT_TOKEN |-> ""]}
    /\ pc = "call"
    /\ all_intervals = NoIntervals
    /\ result = <<>>
    /\ raised = "none"
    /\ log = <<>>
    /\ responses = <<>>
    /\ smt_calls = <<>>
    /\ commands = <<>>
    /\ response_steps = <<>>
    /\ tmp_files = {}

NextEfl == MaterializePdf \/ RunPdftotext \/ MaybeRunOcr

SpecEfl == InitEfl /\ [][NextEfl]_vars

\* C30: every POST /efl/pdftotext request that materialized the PDF into a
\* temporary file has deleted that file by the time the handler returns, on
\* every exit path: pdftotext success, OCR fallback (successful or not),
\* pdftotext spawn failure or timeout, and pdftotext non-zero exit.
C30_TempFileCleanup ==
    pc = "done" /\ op = "Handler.do_POST" => tmp_files = {}

\* the same statement for the exits that answer 200 or fail before pdftotext
C30_CleanupOnSuccess ==
    /\ pc = "done"
    /\ op = "Handler.do_POST"
    /\ Len(responses) = 1
    /\ responses[1].status = 200 \/ commands = <<>>
    => tmp_files = {}

\* pdftotext exits non-zero: 500 is answered and the file stays on disk
C30_NonZeroExitLeaks ==
    /\ pc = "done"
    /\ op = "Handler.do_POST"
    /\ commands = <<"pdftotext">>
    /\ Len(responses) = 1
    /\ responses[1].status = 500
    /\ responses[1].body.error = "pdftotext_non_zero_exit"
    /\ tmp_files = {TmpPath}

====
